---- MODULE Spec2Model ----
(***************************************************************************)
(* Model of the HEVC high-level-syntax generator of the VAAPI encoder,     *)
(* libavcodec/vaapi_encode_h265.c: the per-picture callbacks               *)
(* init_picture_params and init_slice_params, and the three packed-header  *)
(* emission entry points write_sequence_header, write_slice_header and     *)
(* write_extra_header, driven over a window of live pictures; the           *)
(* configuration step init_sequence_params that builds the parameter sets; *)
(* and write_access_unit, the copy of a serialized fragment to the caller. *)
(* A second part models the av1_ts bitstream filter,                       *)
(* libavcodec/bsf/av1_ts.c: the conversion of AV1 packets to and from      *)
(* the start-code format.                                                  *)
(***************************************************************************)
EXTENDS Integers, Sequences, FiniteSets, TLC

\* ------------------------------------------------------------------ bounds
\* Largest number of pictures alive in the window (ctx->pic_start list).
MaxPics == 3
\* Display / encode orders near the start of the stream are 0..MaxOrder.
MaxOrder == 2
\* Largest number of emission calls made for one picture.
MaxEmit == 3
\* Largest data_size (in bytes) of a serialized fragment, which is also the
\* size of the caller's buffer.
MaxBytes == 2
\* Largest number of samples by which a requested dimension falls short of
\* the next multiple of 16.
MaxCrop == 3
\* Largest number of references the scheduler of a faulty caller gives a picture.
MaxRefs == 3
\* Largest number of earlier pictures that RASL pictures keep alive across one
\* intra picture.
MaxHeld == 17
\* Largest payload of an OBU sent alone to the av1_ts filter, and of each of
\* two OBUs sent in one packet.
MaxPayload == 5
MaxSecond == 2

\* ------------------------------------------------------- program constants
HEVC_NAL_TRAIL_N    == 0
HEVC_NAL_TRAIL_R    == 1
HEVC_NAL_RASL_N     == 8
HEVC_NAL_IDR_W_RADL == 19
HEVC_NAL_CRA_NUT    == 21
HEVC_NAL_VPS        == 32
HEVC_NAL_SPS        == 33
HEVC_NAL_PPS        == 34
HEVC_NAL_AUD        == 35
HEVC_NAL_SEI_PREFIX == 39

HEVC_SLICE_B == "B"
HEVC_SLICE_P == "P"
HEVC_SLICE_I == "I"

PICTURE_TYPE_IDR == "IDR"
PICTURE_TYPE_I   == "I"
PICTURE_TYPE_P   == "P"
PICTURE_TYPE_B   == "B"
PictureTypes == {PICTURE_TYPE_IDR, PICTURE_TYPE_I, PICTURE_TYPE_P, PICTURE_TYPE_B}

SEI_MASTERING_DISPLAY   == 8
SEI_CONTENT_LIGHT_LEVEL == 16

\* sps->log2_max_pic_order_cnt_lsb_minus4, set once by init_sequence_params.
log2_max_pic_order_cnt_lsb_minus4 == 8

RECURSIVE Pow2(_)
Pow2(n) == IF n = 0 THEN 1 ELSE 2 * Pow2(n - 1)

\* Display distance from the IDR at which the picture order count lsb wraps.
PocWrap == Pow2(log2_max_pic_order_cnt_lsb_minus4 + 4)

\* Orders a live picture can carry: the window is the live part of a longer
\* stream, so orders need not be contiguous.
Orders == (0 .. MaxOrder) \cup (PocWrap .. (PocWrap + 1))

\* ------------------------------------------------------------------- state
VARIABLES
    avctx,      \* the configuration: width, height and the descriptor of sw_format
    aud,        \* priv->aud, the "aud" option
    sei,        \* priv->sei, the "sei" option, as the set of its flag bits
    pics,       \* ctx->pic_start list: the live pictures, in list order
    cur,        \* index in pics of the picture being encoded (0: none yet)
    phase,      \* "idle", "pic" (picture params built), "slice" (slice params built)
    side_data,  \* side data attached to pic->input_image of the current picture
    priv,       \* stream state of VAAPIEncodeH265Context
    sh,         \* priv->raw_slice.header
    vpic,       \* pic->codec_picture_params of the current picture
    current_access_unit,  \* priv->current_access_unit: the units of the fragment
    emitted,    \* the emission calls made for the current picture (see NoEmission)
    data_len,   \* the caller's *data_len after the last emission call
    data,       \* the caller's buffer: for each byte, whether a fragment was copied there
    vslice,     \* slice->codec_slice_params of the current picture
    bsf         \* the av1_ts filter: the packet sent, and what it became (see NoPacket)

vars == <<avctx, aud, sei, pics, cur, phase, side_data, priv, sh, vpic,
          current_access_unit, emitted, data_len, data, vslice, bsf>>

\* A reference slot that holds no picture (NULL in pic->refs[]).
NoPic == 0

\* The VA_INVALID_ID / VA_PICTURE_HEVC_INVALID entry of a reference array, and
\* the number of entries of vpic->reference_frames.
InvalidPicture ==
    [picture_id |-> -1, pic_order_cnt |-> 0, flags |-> {"VA_PICTURE_HEVC_INVALID"}]
NumReferenceFrames == 15

\* The H265RawSTRefPicSet after memset: no entries.  Each entry keeps, next to
\* delta_poc_sN_minus1 and used_by_curr_pic_sN_flag, the picture it was made for.
EmptyRps == [s0 |-> <<>>, s1 |-> <<>>]

\* av_frame_get_side_data() results a picture can carry: mastering display
\* metadata (absent, or present with its has_primaries / has_luminance flags)
\* and content light level metadata (absent or present).
\* The values of an AVMasteringDisplayMetadata are AVRationals, kept as
\* <<num, den>>: display_primaries[c][xy] for the components R, G, B,
\* white_point[xy], max_luminance and min_luminance.  DefaultMastering is a
\* BT.2020 display of 1000 cd/m2.
DefaultMastering ==
    [display_primaries |-> << << <<35400, 50000>>, <<14600, 50000>> >>,
                              << <<8500, 50000>>,  <<39850, 50000>> >>,
                              << <<6550, 50000>>,  <<2300, 50000>> >> >>,
     white_point   |-> << <<15635, 50000>>, <<16450, 50000>> >>,
     max_luminance |-> <<1000, 1>>,
     min_luminance |-> <<50, 10000>>]
Mastering(present, hp, hl, values) ==
    [present |-> present, has_primaries |-> hp, has_luminance |-> hl,
     display_primaries |-> values.display_primaries,
     white_point       |-> values.white_point,
     max_luminance     |-> values.max_luminance,
     min_luminance     |-> values.min_luminance]
MasteringSideData ==
    {Mastering(FALSE, FALSE, FALSE, DefaultMastering)} \cup
    {Mastering(TRUE, hp, hl, DefaultMastering) : hp \in BOOLEAN, hl \in BOOLEAN}
SideData == [mdm : MasteringSideData, clm : BOOLEAN]
NoSideData == [mdm |-> Mastering(FALSE, FALSE, FALSE, DefaultMastering),
               clm |-> FALSE]

\* What is kept of the emission calls made for the current picture: their
\* number, the number of those made through write_sequence_header or
\* write_slice_header, the number of those that got a unit into their
\* fragment, the number of AUD units they put into fragments, the number of
\* write_extra_header calls that returned 0, and the last call: its entry
\* point, the units its fragment held when add_nal had inserted its units,
\* its return value.
NoEmission ==
    [calls |-> 0, headers |-> 0, adds |-> 0, auds |-> 0, sent |-> 0,
     last |-> [entry |-> "none", units |-> <<>>, err |-> "OK"]]

\* priv->raw_slice.header of the zeroed context, and the zero-allocated
\* codec_picture_params before init_picture_params has run.
ZeroSliceHeader ==
    [nal_unit_type |-> 0, slice_type |-> HEVC_SLICE_B,
     slice_pic_order_cnt_lsb |-> 0,
     short_term_ref_pic_set |-> EmptyRps,
     slice_qp_delta |-> 0]
ZeroPicture ==
    [nal_unit_type |-> 0,
     decoded_curr_pic |-> [picture_id |-> 0, pic_order_cnt |-> 0],
     reference_frames |-> <<>>]

\* The zero-allocated codec_slice_params before init_slice_params has run.
ZeroSlice == [slice_qp_delta |-> 0, ref_pic_list0 |-> <<>>, ref_pic_list1 |-> <<>>]

\* The av1_ts filter before a packet is sent to it: the packet sent (in), the
\* packet the to_ts instance returned for it (ts), the packet the from_ts
\* instance returned for that (out), the position in this pipeline (stage) and
\* the return value of the last filter call (ret).
NoPacket == [stage |-> "none", in |-> <<>>, ts |-> <<>>, out |-> <<>>, ret |-> 0]

\* priv->current_access_unit after the memset of init_sequence_params and after
\* ff_cbs_fragment_uninit: no units, no data.
FragmentUninit == [units |-> <<>>, data_size |-> 0, data_bit_padding |-> 0]

\* The caller's buffer before anything was copied into it.
CallerData == [i \in 1 .. MaxBytes |-> "caller"]

\* ------------------------------------------------------------ configuration
\* FFALIGN(x, a): x rounded up to a multiple of a.
FFALIGN(x, a) == ((x + a - 1) \div a) * a

\* The descriptors av_pix_fmt_desc_get can return for sw_format: one component
\* (gray), or three with chroma subsampled by 1, 2 or 4 in each direction.
PixFmtDescs ==
    {[nb_components |-> 1, log2_chroma_w |-> 0, log2_chroma_h |-> 0]} \cup
    {[nb_components |-> 3, log2_chroma_w |-> w, log2_chroma_h |-> h] :
        w \in 0 .. 2, h \in 0 .. 2}

\* Requested output sizes: up to MaxCrop short of a multiple of 16, and 1920x1080.
Widths  == {16 - k : k \in 0 .. MaxCrop} \cup {1920}
Heights == {16 - k : k \in 0 .. MaxCrop} \cup {1080}

\* The colour properties of the configuration: each is unspecified or one
\* specified value (two for the range, of which AVCOL_RANGE_JPEG is full range).
AVCOL_RANGE_UNSPECIFIED == "AVCOL_RANGE_UNSPECIFIED"
AVCOL_RANGE_MPEG        == "AVCOL_RANGE_MPEG"
AVCOL_RANGE_JPEG        == "AVCOL_RANGE_JPEG"
AVCOL_PRI_UNSPECIFIED   == "AVCOL_PRI_UNSPECIFIED"
AVCOL_TRC_UNSPECIFIED   == "AVCOL_TRC_UNSPECIFIED"
AVCOL_SPC_UNSPECIFIED   == "AVCOL_SPC_UNSPECIFIED"

\* The rate-control modes vaapi_encode_h265_configure accepts.
VA_RC_CQP == "VA_RC_CQP"
VA_RC_CBR == "VA_RC_CBR"
VA_RC_VBR == "VA_RC_VBR"

\* 1920x1080 in a 4:2:0 format with no colour property specified, and the
\* defaults of the rate control: constant QP 25, i_qfactor 1, i_qoffset 0,
\* b_qfactor 6/5, b_qoffset 0.  The quantizer factors and offsets are floats,
\* kept as fractions <<numerator, denominator>>.
DefaultAvctx ==
    [width |-> 1920, height |-> 1080,
     desc |-> [nb_components |-> 3, log2_chroma_w |-> 1, log2_chroma_h |-> 1],
     color_range     |-> AVCOL_RANGE_UNSPECIFIED,
     color_primaries |-> AVCOL_PRI_UNSPECIFIED,
     color_trc       |-> AVCOL_TRC_UNSPECIFIED,
     colorspace      |-> AVCOL_SPC_UNSPECIFIED,
     rc_mode |-> VA_RC_CQP, qp |-> 25,
     i_quant_factor |-> <<1, 1>>, i_quant_offset |-> <<0, 1>>,
     b_quant_factor |-> <<6, 5>>, b_quant_offset |-> <<0, 1>>]

\* The configurations init_sequence_params is run on: every size, descriptor
\* and combination of colour properties.
Avctxs ==
    {[DefaultAvctx EXCEPT !.width = w, !.height = h, !.desc = d,
                          !.color_range = r, !.color_primaries = cp,
                          !.color_trc = t, !.colorspace = cs] :
        w \in Widths, h \in Heights, d \in PixFmtDescs,
        r  \in {AVCOL_RANGE_UNSPECIFIED, AVCOL_RANGE_MPEG, AVCOL_RANGE_JPEG},
        cp \in {AVCOL_PRI_UNSPECIFIED, "AVCOL_PRI_BT709"},
        t  \in {AVCOL_TRC_UNSPECIFIED, "AVCOL_TRC_BT709"},
        cs \in {AVCOL_SPC_UNSPECIFIED, "AVCOL_SPC_BT709"}}

\* The rate-control settings vaapi_encode_h265_configure is run on: the
\* fractions have denominators 1 and 5, so that no product falls on a half
\* and the float arithmetic rounds as the exact one does.
QpAvctxs ==
    {[DefaultAvctx EXCEPT !.rc_mode = m, !.qp = q,
                          !.i_quant_factor = f, !.i_quant_offset = o,
                          !.b_quant_factor = g, !.b_quant_offset = o] :
        m \in {VA_RC_CQP, VA_RC_CBR, VA_RC_VBR},
        q \in {20, 25},
        f \in {<<0, 1>>, <<1, 1>>, <<6, 5>>},
        g \in {<<0, 1>>, <<1, 1>>, <<6, 5>>},
        o \in {<<0, 1>>, <<2, 1>>}}

\* The value of an int that was never assigned: 0..3 are the chroma formats,
\* 4 stands for every other value.
UninitializedInts == 0 .. 4

\* chroma_format as init_sequence_params leaves it for the descriptor desc:
\* the branch for an unsupported subsampling logs an error and assigns nothing.
ChromaFormats(desc) ==
    IF desc.nb_components = 1 THEN {0}
    ELSE IF desc.log2_chroma_w = 1 /\ desc.log2_chroma_h = 1 THEN {1}
    ELSE IF desc.log2_chroma_w = 1 /\ desc.log2_chroma_h = 0 THEN {2}
    ELSE IF desc.log2_chroma_w = 0 /\ desc.log2_chroma_h = 0 THEN {3}
    ELSE UninitializedInts

\* conf_win_right_offset / conf_win_bottom_offset for a surface dimension and
\* the requested dimension.
ConfWinOffset(surface, requested) == (surface - requested) \div 2

\* The VPS, SPS and PPS after the memsets of init_sequence_params.
ZeroVps ==
    [nal_unit_type |-> 0,
     general_max_422chroma_constraint_flag  |-> FALSE,
     general_max_420chroma_constraint_flag  |-> FALSE,
     general_max_monochrome_constraint_flag |-> FALSE]
ZeroSps ==
    [nal_unit_type |-> 0, chroma_format_idc |-> 0,
     pic_width_in_luma_samples |-> 0, pic_height_in_luma_samples |-> 0,
     conformance_window_flag |-> FALSE,
     conf_win_left_offset |-> 0, conf_win_right_offset |-> 0,
     conf_win_top_offset |-> 0, conf_win_bottom_offset |-> 0,
     log2_max_pic_order_cnt_lsb_minus4 |-> 0,
     vui |-> [video_signal_type_present_flag  |-> FALSE,
              video_format                    |-> 0,
              video_full_range_flag           |-> FALSE,
              colour_description_present_flag |-> FALSE]]
ZeroPps == [nal_unit_type |-> 0, pps_seq_parameter_set_id |-> 0,
            init_qp_minus26 |-> 0]

\* Faulty variant: the colour description is marked present when only the
\* range is specified.
M_VuiColourOnRange(av) ==
    LET described == \/ av.color_primaries # AVCOL_PRI_UNSPECIFIED
                     \/ av.color_trc # AVCOL_TRC_UNSPECIFIED
                     \/ av.colorspace # AVCOL_SPC_UNSPECIFIED
        signalled == av.color_range # AVCOL_RANGE_UNSPECIFIED \/ described
    IN [video_signal_type_present_flag  |-> signalled,
        video_format                    |-> 5,
        video_full_range_flag           |->
            signalled /\ av.color_range = AVCOL_RANGE_JPEG,
        colour_description_present_flag |-> signalled]

\* The video-signal part of the VUI for the configuration av.  The colour
\* values themselves (colour_primaries, transfer_characteristics,
\* matrix_coefficients) are not kept.
VuiColour(av) ==
    LET described == \/ av.color_primaries # AVCOL_PRI_UNSPECIFIED
                     \/ av.color_trc # AVCOL_TRC_UNSPECIFIED
                     \/ av.colorspace # AVCOL_SPC_UNSPECIFIED
        signalled == av.color_range # AVCOL_RANGE_UNSPECIFIED \/ described
    IN [video_signal_type_present_flag  |-> signalled,
        video_format                    |-> 5,
        video_full_range_flag           |->
            signalled /\ av.color_range = AVCOL_RANGE_JPEG,
        colour_description_present_flag |-> signalled /\ described]

\* The parameter sets init_sequence_params builds in pr for the configuration
\* av when chroma_format holds cf.
SequenceParams(av, pr, cf) ==
    LET sw == pr.common.surface_width
        shh == pr.common.surface_height
        window == av.width # sw \/ av.height # shh
    IN [pr EXCEPT
          !.raw_vps =
              [ZeroVps EXCEPT
                 !.nal_unit_type = HEVC_NAL_VPS,
                 !.general_max_422chroma_constraint_flag  = (cf <= 2),
                 !.general_max_420chroma_constraint_flag  = (cf <= 1),
                 !.general_max_monochrome_constraint_flag = (cf = 0)],
          !.raw_sps =
              [ZeroSps EXCEPT
                 !.nal_unit_type = HEVC_NAL_SPS,
                 !.chroma_format_idc = cf,
                 !.pic_width_in_luma_samples  = sw,
                 !.pic_height_in_luma_samples = shh,
                 !.conformance_window_flag = window,
                 !.conf_win_right_offset =
                     IF window THEN ConfWinOffset(sw, av.width) ELSE 0,
                 !.conf_win_bottom_offset =
                     IF window THEN ConfWinOffset(shh, av.height) ELSE 0,
                 !.log2_max_pic_order_cnt_lsb_minus4 =
                     log2_max_pic_order_cnt_lsb_minus4,
                 !.vui = VuiColour(av)],
          !.raw_pps =
              [ZeroPps EXCEPT !.nal_unit_type = HEVC_NAL_PPS,
                              !.init_qp_minus26 = pr.fixed_qp_idr - 26]]

\* (int)(qp * factor + offset + 0.5) for fractions factor and offset: the
\* conversion truncates towards zero.
ScaledQp(qp, factor, offset) ==
    LET num == 2 * (qp * factor[1] * offset[2] + offset[1] * factor[2])
               + factor[2] * offset[2]
        den == 2 * factor[2] * offset[2]
    IN IF num >= 0 THEN num \div den ELSE -((-num) \div den)

\* vaapi_encode_h265_configure: fixed_qp_idr, fixed_qp_p and fixed_qp_b for
\* the rate-control settings of av.
FixedQps(av) ==
    IF av.rc_mode = VA_RC_CQP
    THEN [idr |-> IF av.i_quant_factor[1] > 0
                  THEN ScaledQp(av.qp, av.i_quant_factor, av.i_quant_offset)
                  ELSE av.qp,
          p   |-> av.qp,
          b   |-> IF av.b_quant_factor[1] > 0
                  THEN ScaledQp(av.qp, av.b_quant_factor, av.b_quant_offset)
                  ELSE av.qp]
    ELSE [idr |-> 30, p |-> 30, b |-> 30]

\* The H265RawSEIMasteringDisplayColourVolume of the zeroed context.
ZeroMasteringDisplay ==
    [display_primaries_x |-> <<0, 0, 0>>, display_primaries_y |-> <<0, 0, 0>>,
     white_point_x |-> 0, white_point_y |-> 0,
     max_display_mastering_luminance |-> 0,
     min_display_mastering_luminance |-> 0]

\* The private context when init_sequence_params is called: zeroed, with the
\* surface size aligned to 16 by vaapi_encode_h265_init and the fixed QPs set
\* by vaapi_encode_h265_configure.
Constructed(av) ==
    [common |-> [surface_width  |-> FFALIGN(av.width, 16),
                 surface_height |-> FFALIGN(av.height, 16)],
     fixed_qp_idr |-> FixedQps(av).idr,
     fixed_qp_p   |-> FixedQps(av).p,
     fixed_qp_b   |-> FixedQps(av).b,
     sei_mastering_display |-> ZeroMasteringDisplay,
     last_idr_frame |-> 0, pic_order_cnt |-> 0,
     slice_nal_unit |-> 0, slice_type |-> HEVC_SLICE_B, pic_type |-> 0,
     raw_aud |-> [nal_unit_type |-> 0, pic_type |-> 0],
     raw_vps |-> ZeroVps, raw_sps |-> ZeroSps, raw_pps |-> ZeroPps,
     aud_needed |-> FALSE, sei_needed |-> {}]

\* The private context after init_sequence_params on a supported format.
Configured(av) ==
    SequenceParams(av, Constructed(av), CHOOSE cf \in ChromaFormats(av.desc) : TRUE)

\* What no picture-level step of the encoder changes: its configuration, and
\* the packets of the av1_ts filter, which is not part of the encoder.
Stream == <<avctx, aud, sei, bsf>>

\* init_sequence_params: builds the parameter sets and returns 0; no path of
\* it returns an error.
InitSequenceParams ==
    /\ phase = "config"
    /\ \E cf \in ChromaFormats(avctx.desc) :
          priv' = SequenceParams(avctx, priv, cf)
    /\ current_access_unit' = FragmentUninit
    /\ phase' = "idle"
    /\ UNCHANGED <<Stream, pics, cur, side_data, sh, vpic, vslice, emitted,
                   data_len, data>>

\* The state after configuration (vaapi_encode_h265_init, then
\* init_sequence_params) for 1920x1080 4:2:0 input, under any setting of the
\* aud and sei options.
Init ==
    /\ avctx = DefaultAvctx
    /\ aud \in BOOLEAN
    /\ sei \in SUBSET {SEI_MASTERING_DISPLAY, SEI_CONTENT_LIGHT_LEVEL}
    /\ pics = <<>>
    /\ cur = 0
    /\ phase = "idle"
    /\ side_data = NoSideData
    /\ priv = Configured(DefaultAvctx)
    /\ sh = ZeroSliceHeader
    /\ vpic = ZeroPicture
    /\ vslice = ZeroSlice
    /\ bsf = NoPacket
    /\ current_access_unit = FragmentUninit
    /\ emitted = NoEmission
    /\ data_len = 0
    /\ data = CallerData

\* ------------------------------------------------- the picture scheduler
\* Encode order of the last IDR in the list (0 when there is none): the value
\* priv->last_idr_frame has when a picture appended now gets encoded.
RECURSIVE LastIdrIn(_)
LastIdrIn(ps) ==
    IF ps = <<>> THEN 0
    ELSE IF ps[Len(ps)].type = PICTURE_TYPE_IDR THEN ps[Len(ps)].display_order
    ELSE LastIdrIn(SubSeq(ps, 1, Len(ps) - 1))

\* Reference lists the scheduler may give a picture of type t when n pictures
\* precede it: none for IDR and I, one for P, two for B.
RefLists(t, n) ==
    IF t = PICTURE_TYPE_P THEN {<<a>> : a \in 1 .. n}
    ELSE IF t = PICTURE_TYPE_B
    THEN {r \in {<<a, b>> : a \in 1 .. n, b \in 1 .. n} : r[1] # r[2]}
    ELSE {<<>>}

\* The preconditions init_picture_params and init_slice_params assert of a
\* picture p that follows the pictures ps.
PictureAsserts(p, ps) ==
    /\ p.type = PICTURE_TYPE_IDR => p.display_order = p.encode_order
    /\ p.type # PICTURE_TYPE_IDR => p.encode_order > LastIdrIn(ps)
    /\ \A i \in 1 .. Len(p.refs) :
          /\ p.refs[i] # NoPic
          /\ ps[p.refs[i]].encode_order < p.encode_order

\* The scheduler appends one picture to the live window; its display and
\* encode orders are drawn from ds and es.
ScheduleFrom(ds, es) ==
    /\ Len(pics) < MaxPics
    /\ \E t \in PictureTypes, d \in ds, e \in es :
         \E r \in RefLists(t, Len(pics)) :
           LET p == [display_order |-> d, encode_order |-> e, type |-> t, refs |-> r]
           IN /\ pics = <<>> => t = PICTURE_TYPE_IDR
              /\ \A i \in 1 .. Len(pics) :
                    /\ pics[i].encode_order < e
                    /\ pics[i].display_order # d
              /\ PictureAsserts(p, pics)
              /\ pics' = Append(pics, p)
    /\ UNCHANGED <<Stream, cur, phase, side_data, priv, sh, vpic, vslice,
                   current_access_unit, emitted, data_len, data>>

\* A stream with B-frame reordering, of which the window is the live part.
Schedule == ScheduleFrom(Orders, Orders)

\* A low-delay stream: pictures are encoded in display order, from 0 on, each
\* as soon as it arrives (no look-ahead).
ScheduleInOrder ==
    /\ cur = Len(pics)
    /\ phase \in {"idle", "slice"}
    /\ ScheduleFrom({Len(pics)}, {Len(pics)})

\* A caller that keeps the order of the stream but not the reference counts:
\* a picture of any type, encoded as soon as it arrives, with up to MaxRefs
\* reference slots filled with earlier pictures or left NULL.
ScheduleAny ==
    /\ Len(pics) < MaxPics
    /\ cur = Len(pics)
    /\ phase \in {"idle", "slice"}
    /\ \E t \in PictureTypes, k \in 0 .. MaxRefs :
         \E r \in [1 .. k -> 0 .. Len(pics)] :
           pics' = Append(pics, [display_order |-> Len(pics),
                                 encode_order |-> Len(pics),
                                 type |-> t, refs |-> r])
    /\ UNCHANGED <<Stream, cur, phase, side_data, priv, sh, vpic, vslice,
                   current_access_unit, emitted, data_len, data>>

\* ------------------------------------------------- init_picture_params
\* pic->refs[i - 1]: the slots from nb_refs on of the zero-allocated picture
\* are NULL.
Ref(pic, i) == IF i <= Len(pic.refs) THEN pic.refs[i] ELSE NoPic

\* The av_assert0 conditions of init_picture_params on pic when
\* priv->last_idr_frame is last.
PictureParamsAsserts(pic, last) ==
    /\ pic.type = PICTURE_TYPE_IDR => pic.display_order = pic.encode_order
    /\ pic.type # PICTURE_TYPE_IDR => pic.encode_order > last
    /\ pic.type = PICTURE_TYPE_P => Ref(pic, 1) # NoPic
    /\ pic.type = PICTURE_TYPE_B => Ref(pic, 1) # NoPic /\ Ref(pic, 2) # NoPic
    /\ \A i \in 1 .. Len(pic.refs) :
          /\ pic.refs[i] # NoPic
          /\ pics[pic.refs[i]].encode_order < pic.encode_order

\* Faulty variant: a P picture gets the non-reference code TRAIL_N.
M_SliceNalUnitTrailN(pic) ==
    IF pic.type = PICTURE_TYPE_IDR THEN HEVC_NAL_IDR_W_RADL
    ELSE IF pic.type = PICTURE_TYPE_I THEN HEVC_NAL_CRA_NUT
    ELSE IF pic.type = PICTURE_TYPE_P THEN HEVC_NAL_TRAIL_N
    ELSE IF pics[pic.refs[2]].type = PICTURE_TYPE_I THEN HEVC_NAL_RASL_N
    ELSE HEVC_NAL_TRAIL_N

\* Faulty variant: a B picture whose second reference is an IDR is RASL_N too.
M_SliceNalUnitRaslIdr(pic) ==
    IF pic.type = PICTURE_TYPE_IDR THEN HEVC_NAL_IDR_W_RADL
    ELSE IF pic.type = PICTURE_TYPE_I THEN HEVC_NAL_CRA_NUT
    ELSE IF pic.type = PICTURE_TYPE_P THEN HEVC_NAL_TRAIL_R
    ELSE IF pics[pic.refs[2]].type \in {PICTURE_TYPE_I, PICTURE_TYPE_IDR}
    THEN HEVC_NAL_RASL_N
    ELSE HEVC_NAL_TRAIL_N

\* The picture-type classifier: slice_nal_unit, slice_type and pic_type of pic.
SliceNalUnit(pic) ==
    IF pic.type = PICTURE_TYPE_IDR THEN HEVC_NAL_IDR_W_RADL
    ELSE IF pic.type = PICTURE_TYPE_I THEN HEVC_NAL_CRA_NUT
    ELSE IF pic.type = PICTURE_TYPE_P THEN HEVC_NAL_TRAIL_R
    ELSE IF pics[pic.refs[2]].type = PICTURE_TYPE_I THEN HEVC_NAL_RASL_N
    ELSE HEVC_NAL_TRAIL_N

SliceType(pic) ==
    IF pic.type \in {PICTURE_TYPE_IDR, PICTURE_TYPE_I} THEN HEVC_SLICE_I
    ELSE IF pic.type = PICTURE_TYPE_P THEN HEVC_SLICE_P
    ELSE HEVC_SLICE_B

PicType(pic) ==
    IF pic.type \in {PICTURE_TYPE_IDR, PICTURE_TYPE_I} THEN 0
    ELSE IF pic.type = PICTURE_TYPE_P THEN 1
    ELSE 2

\* Faulty variant: a non-IDR I picture resets the origin too.
M_LastIdrFrameOnIntra(pic, last) ==
    IF pic.type \in {PICTURE_TYPE_IDR, PICTURE_TYPE_I} THEN pic.display_order
    ELSE last

\* priv->last_idr_frame after the classifier has run on pic.
LastIdrFrame(pic, last) ==
    IF pic.type = PICTURE_TYPE_IDR THEN pic.display_order ELSE last

\* The raw_aud record and aud_needed flag prepared for a picture.
RawAud(pt) == [nal_unit_type |-> HEVC_NAL_AUD, pic_type |-> pt]

\* Faulty variant: sei_needed is not reset, what the previous picture needed stays.
M_SeiNeededCarried(pic, sd) ==
    priv.sei_needed
    \cup
    (IF /\ SEI_MASTERING_DISPLAY \in sei
        /\ pic.type \in {PICTURE_TYPE_I, PICTURE_TYPE_IDR}
        /\ sd.mdm.present
        /\ sd.mdm.has_primaries /\ sd.mdm.has_luminance
     THEN {SEI_MASTERING_DISPLAY} ELSE {})
    \cup
    (IF /\ SEI_CONTENT_LIGHT_LEVEL \in sei
        /\ pic.type \in {PICTURE_TYPE_I, PICTURE_TYPE_IDR}
        /\ sd.clm
     THEN {SEI_CONTENT_LIGHT_LEVEL} ELSE {})

\* The SEI payloads init_picture_params composes for pic from side data sd.
SeiNeeded(pic, sd) ==
    (IF /\ SEI_MASTERING_DISPLAY \in sei
        /\ pic.type \in {PICTURE_TYPE_I, PICTURE_TYPE_IDR}
        /\ sd.mdm.present
        /\ sd.mdm.has_primaries /\ sd.mdm.has_luminance
     THEN {SEI_MASTERING_DISPLAY} ELSE {})
    \cup
    (IF /\ SEI_CONTENT_LIGHT_LEVEL \in sei
        /\ pic.type \in {PICTURE_TYPE_I, PICTURE_TYPE_IDR}
        /\ sd.clm
     THEN {SEI_CONTENT_LIGHT_LEVEL} ELSE {})

\* lrint(n / d) for d > 0: the nearest integer, a half going to the even one.
Lrint(n, d) ==
    LET q == n \div d
        r == n % d
    IN IF 2 * r < d THEN q
       ELSE IF 2 * r > d THEN q + 1
       ELSE IF q % 2 = 0 THEN q ELSE q + 1

FFMIN(a, b) == IF a > b THEN b ELSE a

\* The value an unsigned field of w bits holds after x is assigned to it.
Unsigned(x, w) == x % Pow2(w)

\* A chroma coordinate (display_primaries_x/y, white_point_x/y, 16 bits wide)
\* for the AVRational q: FFMIN(lrint(chroma_den * av_q2d(q)), chroma_den).
ChromaQuant(q) == Unsigned(FFMIN(Lrint(50000 * q[1], q[2]), 50000), 16)

\* max_display_mastering_luminance for the AVRational q.  The field is 32
\* bits wide; the luminances taken here are not negative and their
\* quantization is below 2^31, so the field holds it unchanged.
MaxLuminanceQuant(q) == Lrint(10000 * q[1], q[2])

\* min_display_mastering_luminance for the AVRational q when the maximum
\* stored is max.
MinLuminanceQuant(q, max) == FFMIN(Lrint(10000 * q[1], q[2]), max)

\* mapping[i]: the payload lists the primaries in the order G, B, R.
MasteringMapping == <<2, 3, 1>>

\* priv->sei_mastering_display composed from the metadata mdm.
MasteringDisplay(mdm) ==
    LET max == MaxLuminanceQuant(mdm.max_luminance)
    IN [display_primaries_x |->
            [i \in 1 .. 3 |->
                ChromaQuant(mdm.display_primaries[MasteringMapping[i]][1])],
        display_primaries_y |->
            [i \in 1 .. 3 |->
                ChromaQuant(mdm.display_primaries[MasteringMapping[i]][2])],
        white_point_x |-> ChromaQuant(mdm.white_point[1]),
        white_point_y |-> ChromaQuant(mdm.white_point[2]),
        max_display_mastering_luminance |-> max,
        min_display_mastering_luminance |->
            MinLuminanceQuant(mdm.min_luminance, max)]

\* vpic->reference_frames[i] for the i-th reference of pic.
ReferenceFrame(pic, i, last) ==
    LET ref == pics[pic.refs[i]]
    IN [picture_id    |-> pic.refs[i],
        pic_order_cnt |-> ref.display_order - last,
        flags |-> (IF ref.display_order < pic.display_order
                   THEN {"VA_PICTURE_HEVC_RPS_ST_CURR_BEFORE"} ELSE {})
                  \cup
                  (IF ref.display_order > pic.display_order
                   THEN {"VA_PICTURE_HEVC_RPS_ST_CURR_AFTER"} ELSE {})]

InitPictureParamsOn(frames) ==
    /\ phase \in {"idle", "slice"}
    /\ cur < Len(pics)
    /\ PictureParamsAsserts(pics[cur + 1], priv.last_idr_frame)
    /\ \E sd \in frames :
         LET n    == cur + 1
             pic  == pics[n]
             last == LastIdrFrame(pic, priv.last_idr_frame)
             poc  == pic.display_order - last
         IN /\ cur' = n
            /\ side_data' = sd
            /\ priv' = [priv EXCEPT
                          !.last_idr_frame = last,
                          !.slice_nal_unit = SliceNalUnit(pic),
                          !.slice_type     = SliceType(pic),
                          !.pic_type       = PicType(pic),
                          !.pic_order_cnt  = poc,
                          !.aud_needed     = aud,
                          !.raw_aud        = IF aud THEN RawAud(PicType(pic))
                                             ELSE priv.raw_aud,
                          !.sei_needed     = SeiNeeded(pic, sd),
                          !.sei_mastering_display =
                              IF SEI_MASTERING_DISPLAY \in SeiNeeded(pic, sd)
                              THEN MasteringDisplay(sd.mdm)
                              ELSE priv.sei_mastering_display]
            /\ vpic' = [nal_unit_type    |-> SliceNalUnit(pic),
                        decoded_curr_pic |-> [picture_id |-> n, pic_order_cnt |-> poc],
                        reference_frames |->
                            [i \in 1 .. NumReferenceFrames |->
                                IF i <= Len(pic.refs)
                                THEN ReferenceFrame(pic, i, last)
                                ELSE InvalidPicture]]
    /\ phase' = "pic"
    /\ emitted' = NoEmission
    /\ UNCHANGED <<Stream, pics, sh, vslice, current_access_unit, data_len, data>>

\* init_picture_params on a picture that fails one of its assertions: the
\* process aborts.
InitPictureParamsAbort ==
    /\ phase \in {"idle", "slice"}
    /\ cur < Len(pics)
    /\ ~PictureParamsAsserts(pics[cur + 1], priv.last_idr_frame)
    /\ cur' = cur + 1
    /\ phase' = "abort"
    /\ UNCHANGED <<Stream, pics, side_data, priv, sh, vpic, vslice,
                   current_access_unit, emitted, data_len, data>>

\* Input frames that may carry any side data.
InitPictureParams == InitPictureParamsOn(SideData)

\* Input frames that carry no side data or complete HDR side data.
HdrSideData == [mdm |-> Mastering(TRUE, TRUE, TRUE, DefaultMastering),
                clm |-> TRUE]
InitPictureParamsHdr == InitPictureParamsOn({NoSideData, HdrSideData})

\* Input frames without side data.
InitPictureParamsPlain == InitPictureParamsOn({NoSideData})

\* Input frames with complete mastering display metadata whose red x
\* coordinate and white point x coordinate are below 0, 0, inside (0, 1), 1
\* and above 1, and whose minimum luminance is below or above the maximum.
\* No value times its denominator falls on a half.
MasteringValues ==
    {[DefaultMastering EXCEPT !.display_primaries[1][1] = r,
                              !.white_point[1] = w,
                              !.max_luminance = mx, !.min_luminance = mn] :
        r  \in {<<-1, 50000>>, <<0, 1>>, <<1, 3>>, <<1, 1>>, <<2, 1>>},
        w  \in {<<-1, 3>>, <<15635, 50000>>, <<3, 2>>},
        mx \in {<<1000, 1>>, <<1, 3>>},
        mn \in {<<50, 10000>>, <<2000, 1>>}}
InitPictureParamsMastering ==
    InitPictureParamsOn({[mdm |-> Mastering(TRUE, TRUE, TRUE, v), clm |-> FALSE] :
                            v \in MasteringValues})

\* --------------------------------------------------- init_slice_params
\* used: st is one of pic's references.
Used(pic, st) == \E i \in 1 .. Len(pic.refs) : pic.refs[i] = st

\* Faulty variant: no unused reference is ever held.
M_HeldForRaslNever(ps, n, st) == FALSE

\* The scan for a following RASL picture that needs st held across picture n
\* of the list ps: a B picture rp, not before n in encode order, with
\* refs[0] = st and refs[1] = n.
HeldForRasl(ps, n, st) ==
    \E rp \in 1 .. Len(ps) :
        /\ ~(ps[rp].encode_order < ps[n].encode_order)
        /\ ps[rp].type = PICTURE_TYPE_B
        /\ ps[rp].refs[1] = st /\ ps[rp].refs[2] = n

\* Faulty variant: the delta is stored, not the delta minus one.
M_NegativeEntryDelta(pic, s, st, used) ==
    [st |-> st, used |-> used,
     delta_poc_minus1 |-> pic.display_order - s.display_order]

\* An entry of the negative set (delta_poc_s0_minus1, used_by_curr_pic_s0_flag).
NegativeEntry(pic, s, st, used) ==
    [st |-> st, used |-> used,
     delta_poc_minus1 |-> pic.display_order - s.display_order - 1]

\* An entry of the positive set (delta_poc_s1_minus1, used_by_curr_pic_s1_flag).
PositiveEntry(pic, s, st, used) ==
    [st |-> st, used |-> used,
     delta_poc_minus1 |-> s.display_order - pic.display_order - 1]

\* One iteration of the loop over ctx->pic_start for the list element st.
RpsStep(ps, n, st, rps) ==
    LET pic == ps[n]
    IN IF ~(ps[st].encode_order < pic.encode_order) THEN rps
       ELSE IF ~Used(pic, st) /\ ~HeldForRasl(ps, n, st) THEN rps
       ELSE IF ps[st].display_order < pic.display_order
       THEN [rps EXCEPT
               !.s0 = Append(@, NegativeEntry(pic, ps[st], st, Used(pic, st)))]
       ELSE [rps EXCEPT
               !.s1 = Append(@, PositiveEntry(pic, ps[st], st, Used(pic, st)))]

\* The loop from list element st to the end of the list.
RECURSIVE RpsLoop(_, _, _, _)
RpsLoop(ps, n, st, rps) ==
    IF st > Len(ps) THEN rps
    ELSE RpsLoop(ps, n, st + 1, RpsStep(ps, n, st, rps))

\* The short-term RPS the slice header of picture n of the list ps gets.
BuildRps(ps, n) == RpsLoop(ps, n, 1, EmptyRps)

\* HEVC_MAX_REFS: the number of elements of delta_poc_sN_minus1 and of
\* used_by_curr_pic_sN_flag.
HEVC_MAX_REFS == 16

\* What the slice header can hold after the loop has built rps.  The loop
\* does not compare num_negative_pics or num_positive_pics with the size of
\* the arrays: an entry past HEVC_MAX_REFS is a write past the end of its
\* array, which leaves the other members of the structure as they are or
\* overwrites the used flags that follow it.
RpsOutcomes(rps) ==
    IF Len(rps.s0) <= HEVC_MAX_REFS /\ Len(rps.s1) <= HEVC_MAX_REFS
    THEN {rps}
    ELSE {rps,
          [s0 |-> [i \in 1 .. Len(rps.s0) |-> [rps.s0[i] EXCEPT !.used = TRUE]],
           s1 |-> [i \in 1 .. Len(rps.s1) |-> [rps.s1[i] EXCEPT !.used = TRUE]]]}

\* Faulty variant: the mask is left out.
M_PicOrderCntLsbUnmasked(poc) == poc

\* sh->slice_pic_order_cnt_lsb: pic_order_cnt masked to the SPS width.
PicOrderCntLsb(poc) == poc % Pow2(log2_max_pic_order_cnt_lsb_minus4 + 4)

\* Faulty variant: the assertion on the forward reference is missing.
M_SliceParamsAssertsNoForward(pic) ==
    /\ Len(pic.refs) <= 2
    /\ Len(pic.refs) >= 1 => pic.type \in {PICTURE_TYPE_P, PICTURE_TYPE_B}

\* The av_assert0 conditions of init_slice_params on pic (nb_refs against
\* the picture type).
SliceParamsAsserts(pic) ==
    /\ Len(pic.refs) <= 2
    /\ Len(pic.refs) >= 1 => pic.type \in {PICTURE_TYPE_P, PICTURE_TYPE_B}
    /\ Len(pic.refs) >= 2 => pic.type = PICTURE_TYPE_B

\* init_slice_params on a picture that fails one of its assertions: the
\* process aborts.
InitSliceParamsAbort ==
    /\ phase = "pic"
    /\ ~SliceParamsAsserts(pics[cur])
    /\ phase' = "abort"
    /\ UNCHANGED <<Stream, pics, cur, side_data, priv, sh, vpic, vslice,
                   current_access_unit, emitted, data_len, data>>

\* Faulty variant: every picture gets the delta of the intra QP.
M_SliceQpDeltaIntra(pic, pr) ==
    pr.fixed_qp_idr - (pr.raw_pps.init_qp_minus26 + 26)

\* sh->slice_qp_delta of pic in the context pr.
SliceQpDelta(pic, pr) ==
    IF pic.type = PICTURE_TYPE_B
    THEN pr.fixed_qp_b - (pr.raw_pps.init_qp_minus26 + 26)
    ELSE IF pic.type = PICTURE_TYPE_P
    THEN pr.fixed_qp_p - (pr.raw_pps.init_qp_minus26 + 26)
    ELSE pr.fixed_qp_idr - (pr.raw_pps.init_qp_minus26 + 26)

\* The number of entries of vslice->ref_pic_list0 and of ref_pic_list1.
RefPicListSize == 15

\* vslice->ref_pic_list0 and ref_pic_list1 of pic, whose picture parameters
\* hold the reference_frames frames.
RefPicList0(pic, frames) ==
    [i \in 1 .. RefPicListSize |->
        IF i = 1 /\ Len(pic.refs) >= 1 THEN frames[1] ELSE InvalidPicture]

\* Faulty variant: the backward reference is put into list1 as well.
M_RefPicList1Backward(pic, frames) ==
    [i \in 1 .. RefPicListSize |->
        IF i = 1 /\ Len(pic.refs) >= 1 THEN frames[1] ELSE InvalidPicture]

RefPicList1(pic, frames) ==
    [i \in 1 .. RefPicListSize |->
        IF i = 1 /\ Len(pic.refs) >= 2 THEN frames[2] ELSE InvalidPicture]

InitSliceParams ==
    /\ phase = "pic"
    /\ SliceParamsAsserts(pics[cur])
    /\ \E rps \in (IF pics[cur].type # PICTURE_TYPE_IDR
                    THEN RpsOutcomes(BuildRps(pics, cur))
                    ELSE {sh.short_term_ref_pic_set}) :
          sh' = [nal_unit_type |-> priv.slice_nal_unit,
                 slice_type |-> priv.slice_type,
                 slice_pic_order_cnt_lsb |-> PicOrderCntLsb(priv.pic_order_cnt),
                 short_term_ref_pic_set |-> rps,
                 slice_qp_delta |-> SliceQpDelta(pics[cur], priv)]
    /\ vslice' = [slice_qp_delta |-> SliceQpDelta(pics[cur], priv),
                  ref_pic_list0 |-> RefPicList0(pics[cur], vpic.reference_frames),
                  ref_pic_list1 |-> RefPicList1(pics[cur], vpic.reference_frames)]
    /\ phase' = "slice"
    /\ UNCHANGED <<Stream, pics, cur, side_data, priv, vpic,
                   current_access_unit, emitted, data_len, data>>

\* ------------------------------------------------ packed-header emission
\* A NAL unit of the fragment: its type (header->nal_unit_type as add_nal reads
\* it), the structure it points to, and what of its content the model keeps
\* (pic_type of an AUD, the payload types of an SEI).
Unit(t, content, detail) ==
    [nal_unit_type |-> t, content |-> content, detail |-> detail]

\* Faulty variant: the SPS handed to the serializer is refreshed from the
\* picture being encoded.
M_RawSpsUnitPerPicture ==
    Unit(priv.raw_sps.nal_unit_type, "raw_sps",
         [priv.raw_sps EXCEPT !.log2_max_pic_order_cnt_lsb_minus4 = priv.pic_type])

RawAudUnit   == Unit(priv.raw_aud.nal_unit_type, "raw_aud", <<priv.raw_aud.pic_type>>)
RawVpsUnit   == Unit(priv.raw_vps.nal_unit_type, "raw_vps", priv.raw_vps)
RawSpsUnit   == Unit(priv.raw_sps.nal_unit_type, "raw_sps", priv.raw_sps)
RawPpsUnit   == Unit(priv.raw_pps.nal_unit_type, "raw_pps", priv.raw_pps)
RawSliceUnit == Unit(sh.nal_unit_type, "raw_slice", <<>>)

\* HEVC_SEI_TYPE_MASTERING_DISPLAY_INFO and HEVC_SEI_TYPE_CONTENT_LIGHT_LEVEL_INFO.
HEVC_SEI_TYPE_MASTERING_DISPLAY_INFO   == 137
HEVC_SEI_TYPE_CONTENT_LIGHT_LEVEL_INFO == 144

\* The payload types write_extra_header fills into raw_sei, in order.
SeiPayloads(needed) ==
    (IF SEI_MASTERING_DISPLAY \in needed
     THEN <<HEVC_SEI_TYPE_MASTERING_DISPLAY_INFO>> ELSE <<>>) \o
    (IF SEI_CONTENT_LIGHT_LEVEL \in needed
     THEN <<HEVC_SEI_TYPE_CONTENT_LIGHT_LEVEL_INFO>> ELSE <<>>)

RawSeiUnit == Unit(HEVC_NAL_SEI_PREFIX, "raw_sei", SeiPayloads(priv.sei_needed))

\* write_extra_header passes &priv->aud, the int option, where the other two
\* entry points pass &priv->raw_aud.  add_nal reads nal_unit_type from one byte
\* of that int, whose value is 1 when the branch is reached: the byte is 0 or 1
\* depending on the layout of the build.
AudOptionBytes == {0, 1}
AudOptionUnit(b) == Unit(b, "aud", <<>>)

\* Capacities (in bits) a caller passes in *data_len, and the sizes
\* <<data_size, data_bit_padding>> the serializer may give a fragment.
DataLens == {12}
FragmentSizes == {<<1, 0>>, <<2, 3>>}

\* Faulty variant: the fragment is copied before its length is checked.
M_WriteAccessUnitCopyFirst(cbs_ok, len, size, buf) ==
    IF ~cbs_ok
    THEN [err |-> "EINVAL", data_len |-> len, data |-> buf, copied |-> 0]
    ELSE IF len < 8 * size[1] - size[2]
    THEN [err |-> "ENOSPC", data_len |-> len,
          data |-> [i \in DOMAIN buf |-> IF i <= size[1] THEN "packed" ELSE buf[i]],
          copied |-> size[1]]
    ELSE [err |-> "OK", data_len |-> 8 * size[1] - size[2],
          data |-> [i \in DOMAIN buf |-> IF i <= size[1] THEN "packed" ELSE buf[i]],
          copied |-> size[1]]

\* Faulty variant: the length checked and reported is that of the whole bytes.
M_WriteAccessUnitByteLength(cbs_ok, len, size, buf) ==
    IF ~cbs_ok
    THEN [err |-> "EINVAL", data_len |-> len, data |-> buf, copied |-> 0]
    ELSE IF len < 8 * size[1]
    THEN [err |-> "ENOSPC", data_len |-> len, data |-> buf, copied |-> 0]
    ELSE [err |-> "OK", data_len |-> 8 * size[1],
          data |-> [i \in DOMAIN buf |-> IF i <= size[1] THEN "packed" ELSE buf[i]],
          copied |-> size[1]]

\* write_access_unit on a caller's buffer buf of capacity len bits: cbs_ok is
\* the outcome of ff_cbs_write_fragment_data and size the <<data_size,
\* data_bit_padding>> it gives the fragment.  The result is the return value,
\* *data_len and the buffer afterwards, and the number of bytes copied.
WriteAccessUnit(cbs_ok, len, size, buf) ==
    IF ~cbs_ok
    THEN [err |-> "EINVAL", data_len |-> len, data |-> buf, copied |-> 0]
    ELSE IF len < 8 * size[1] - size[2]
    THEN [err |-> "ENOSPC", data_len |-> len, data |-> buf, copied |-> 0]
    ELSE [err |-> "OK", data_len |-> 8 * size[1] - size[2],
          data |-> [i \in DOMAIN buf |-> IF i <= size[1] THEN "packed" ELSE buf[i]],
          copied |-> size[1]]

\* What an entry point can return when the fail-th call of add_nal fails
\* (fail = 0: none does, and write_access_unit decides).
Results(fail) ==
    IF fail # 0
    THEN {[err |-> "ENOMEM", data_len |-> len, data |-> data, copied |-> 0] :
            len \in DataLens}
    ELSE {WriteAccessUnit(cbs_ok, len, size, data) :
            cbs_ok \in BOOLEAN, len \in DataLens, size \in FragmentSizes}

\* The units of list that add_nal inserted when its fail-th call failed
\* (fail = 0: no call failed).
Added(list, fail) == IF fail = 0 THEN list ELSE SubSeq(list, 1, fail - 1)

\* sei_needed after a write_extra_header whose fail-th add_nal failed: it is
\* cleared once the SEI unit is in the fragment, before write_access_unit.
SeiNeededAfter(fail) == IF fail = 0 THEN {} ELSE priv.sei_needed

\* Faulty variant: the flag is never cleared.
M_AudNeededKept(added) == priv.aud_needed

\* aud_needed after an entry point that found it set and added the units.
AudNeededAfter(added) ==
    IF priv.aud_needed /\ Len(added) >= 1 THEN FALSE ELSE priv.aud_needed

\* The number of AUD units among units.
RECURSIVE AudUnits(_)
AudUnits(units) ==
    IF units = <<>> THEN 0
    ELSE (IF Head(units).nal_unit_type = HEVC_NAL_AUD THEN 1 ELSE 0)
         + AudUnits(Tail(units))

\* emitted after one more emission call.
Emission(entry, units, err) ==
    [calls   |-> emitted.calls + 1,
     headers |-> emitted.headers + (IF entry = "extra" THEN 0 ELSE 1),
     adds    |-> emitted.adds + (IF units = <<>> THEN 0 ELSE 1),
     auds    |-> emitted.auds + AudUnits(units),
     sent    |-> emitted.sent + (IF entry = "extra" /\ err = "OK" THEN 1 ELSE 0),
     last    |-> [entry |-> entry, units |-> units, err |-> err]]

\* The caller writes the sequence header for IDR pictures only, and before
\* any other packed header of the picture.
SequenceHeaderDue ==
    /\ pics[cur].type = PICTURE_TYPE_IDR
    /\ emitted.last.entry \in {"none", "sequence"}

\* Faulty variant: the fragment is reset on the success path only.
M_FragmentAfterKeptOnFailure(au, added, err) ==
    IF err = "OK" THEN FragmentUninit
    ELSE [au EXCEPT !.units = au.units \o added]

\* The fragment au when an entry point that reached add_nal returns err after
\* add_nal inserted the units added: whether through the label fail or past
\* write_access_unit, the return comes after ff_cbs_fragment_uninit.
FragmentAfter(au, added, err) == FragmentUninit

\* The body shared by write_sequence_header and write_slice_header: the AUD
\* if needed, then the units of the entry point, then write_access_unit.
WriteHeader(entry, units) ==
    /\ emitted.calls < MaxEmit
    /\ LET list == (IF priv.aud_needed THEN <<RawAudUnit>> ELSE <<>>) \o units
       IN \E fail \in 0 .. Len(list) : \E res \in Results(fail) :
            LET added == Added(list, fail)
            IN /\ priv' = [priv EXCEPT !.aud_needed = AudNeededAfter(added)]
               /\ emitted' = Emission(entry, current_access_unit.units \o added,
                                      res.err)
               /\ data_len' = res.data_len
               /\ data' = res.data
               /\ current_access_unit' =
                     FragmentAfter(current_access_unit, added, res.err)
    /\ UNCHANGED <<Stream, pics, cur, phase, side_data, sh, vpic, vslice>>

WriteSequenceHeader ==
    /\ phase \in {"pic", "slice"}
    /\ SequenceHeaderDue
    /\ WriteHeader("sequence", <<RawVpsUnit, RawSpsUnit, RawPpsUnit>>)

WriteSliceHeader ==
    /\ phase = "slice"
    /\ WriteHeader("slice", <<RawSliceUnit>>)

WriteExtraHeader ==
    /\ phase \in {"pic", "slice"}
    /\ emitted.calls < MaxEmit
    /\ IF priv.sei_needed # {}
       THEN \E list \in {a \o <<RawSeiUnit>> :
                            a \in IF priv.aud_needed
                                   THEN {<<AudOptionUnit(b)>> : b \in AudOptionBytes}
                                   ELSE {<<>>}} :
              \E fail \in 0 .. Len(list) : \E res \in Results(fail) :
                LET added == Added(list, fail)
                IN /\ priv' = [priv EXCEPT
                                 !.aud_needed = AudNeededAfter(added),
                                 !.sei_needed = SeiNeededAfter(fail)]
                   /\ emitted' = Emission("extra",
                                          current_access_unit.units \o added,
                                          res.err)
                   /\ data_len' = res.data_len
                   /\ data' = res.data
                   /\ current_access_unit' =
                         FragmentAfter(current_access_unit, added, res.err)
       ELSE /\ emitted' = Emission("extra", <<>>, "EOF")
            /\ UNCHANGED <<priv, data_len, data, current_access_unit>>
    /\ UNCHANGED <<Stream, pics, cur, phase, side_data, sh, vpic, vslice>>

Next ==
    \/ ScheduleInOrder
    \/ InitPictureParamsHdr
    \/ InitSliceParams
    \/ WriteSequenceHeader
    \/ WriteSliceHeader
    \/ WriteExtraHeader

Spec == Init /\ [][Next]_vars

\* The encoder without packed headers (the driver takes none), on a stream
\* with reordering and the default options.
InitParams ==
    /\ Init
    /\ aud = FALSE
    /\ sei = {SEI_MASTERING_DISPLAY, SEI_CONTENT_LIGHT_LEVEL}

NextParams == Schedule \/ InitPictureParamsPlain \/ InitSliceParams

SpecParams == InitParams /\ [][NextParams]_vars

\* The encoder without packed headers on a low-delay stream whose frames
\* carry any combination of side data, under every setting of the options.
NextSei == ScheduleInOrder \/ InitPictureParams \/ InitSliceParams

SpecSei == Init /\ [][NextSei]_vars

\* The encoder without packed headers on a low-delay stream whose frames
\* carry mastering display metadata of many values.
NextMdm == ScheduleInOrder \/ InitPictureParamsMastering \/ InitSliceParams

SpecMdm == InitParams /\ [][NextMdm]_vars

\* write_access_unit on its own: a fragment of units, not yet serialized, and
\* a caller's buffer of every capacity from 0 bits to the whole buffer.
Capacities == 0 .. (8 * MaxBytes)

\* The <<data_size, data_bit_padding>> ff_cbs_write_fragment_data can give a
\* fragment that holds units.
SerializedSizes == {<<n, p>> : n \in 1 .. MaxBytes, p \in 0 .. 7}

\* The length in bits of a serialized fragment.
FragmentBits(au) == 8 * au.data_size - au.data_bit_padding

InitWrite ==
    /\ avctx = DefaultAvctx
    /\ aud = FALSE
    /\ sei = {}
    /\ pics = <<>>
    /\ cur = 0
    /\ phase = "idle"
    /\ side_data = NoSideData
    /\ priv = Configured(DefaultAvctx)
    /\ sh = ZeroSliceHeader
    /\ vpic = ZeroPicture
    /\ vslice = ZeroSlice
    /\ bsf = NoPacket
    /\ current_access_unit =
          [FragmentUninit EXCEPT !.units = <<RawVpsUnit, RawSpsUnit, RawPpsUnit>>]
    /\ emitted = NoEmission
    /\ data_len \in Capacities
    /\ data = CallerData

\* One call of write_access_unit on the fragment: the serializer fails, or
\* gives the fragment its data and the fragment is copied if it fits.
WriteAccessUnitCall ==
    /\ emitted.calls = 0
    /\ current_access_unit.units # <<>>
    /\ \E cbs_ok \in BOOLEAN, size \in SerializedSizes :
          LET res == WriteAccessUnit(cbs_ok, data_len, size, data)
          IN /\ current_access_unit' =
                   IF cbs_ok
                   THEN [current_access_unit EXCEPT !.data_size = size[1],
                                                    !.data_bit_padding = size[2]]
                   ELSE current_access_unit
             /\ data_len' = res.data_len
             /\ data' = res.data
             /\ emitted' = [emitted EXCEPT
                              !.calls = @ + 1,
                              !.last = [entry |-> "access_unit",
                                        units |-> current_access_unit.units,
                                        err |-> res.err]]
    /\ UNCHANGED <<Stream, pics, cur, phase, side_data, priv, sh, vpic, vslice>>

NextWrite == WriteAccessUnitCall

SpecWrite == InitWrite /\ [][NextWrite]_vars

\* The per-picture callbacks under a caller that gives pictures any number
\* of references.
NextRefs ==
    \/ ScheduleAny
    \/ InitPictureParamsPlain
    \/ InitPictureParamsAbort
    \/ InitSliceParams
    \/ InitSliceParamsAbort

SpecRefs == InitParams /\ [][NextRefs]_vars

\* Configuration: vaapi_encode_h265_init has run on any of the configurations,
\* init_sequence_params has not yet.
InitSeq ==
    /\ avctx \in Avctxs
    /\ aud = FALSE
    /\ sei = {SEI_MASTERING_DISPLAY, SEI_CONTENT_LIGHT_LEVEL}
    /\ pics = <<>>
    /\ cur = 0
    /\ phase = "config"
    /\ side_data = NoSideData
    /\ priv = Constructed(avctx)
    /\ sh = ZeroSliceHeader
    /\ vpic = ZeroPicture
    /\ vslice = ZeroSlice
    /\ bsf = NoPacket
    /\ current_access_unit = FragmentUninit
    /\ emitted = NoEmission
    /\ data_len = 0
    /\ data = CallerData

NextSeq == InitSequenceParams

SpecSeq == InitSeq /\ [][NextSeq]_vars

\* A window in which k pictures (an IDR and k - 1 P pictures) precede an intra
\* picture in encode order, and k B pictures follow it, each with one of the k
\* as its first reference and the intra picture as its second.
HeldWindow(k) ==
    [i \in 1 .. (2 * k + 1) |->
        IF i = 1
        THEN [display_order |-> 0, encode_order |-> 0,
              type |-> PICTURE_TYPE_IDR, refs |-> <<>>]
        ELSE IF i <= k
        THEN [display_order |-> i - 1, encode_order |-> i - 1,
              type |-> PICTURE_TYPE_P, refs |-> <<i - 1>>]
        ELSE IF i = k + 1
        THEN [display_order |-> 2 * k, encode_order |-> k,
              type |-> PICTURE_TYPE_I, refs |-> <<>>]
        ELSE [display_order |-> i - 2, encode_order |-> i - 1,
              type |-> PICTURE_TYPE_B, refs |-> <<i - k - 1, k + 1>>]]

\* The per-picture callbacks on such a window, queued as a whole.
InitHeld ==
    /\ \E k \in 1 .. MaxHeld : pics = HeldWindow(k)
    /\ avctx = DefaultAvctx
    /\ aud = FALSE
    /\ sei = {SEI_MASTERING_DISPLAY, SEI_CONTENT_LIGHT_LEVEL}
    /\ cur = 0
    /\ phase = "idle"
    /\ side_data = NoSideData
    /\ priv = Configured(DefaultAvctx)
    /\ sh = ZeroSliceHeader
    /\ vpic = ZeroPicture
    /\ vslice = ZeroSlice
    /\ bsf = NoPacket
    /\ current_access_unit = FragmentUninit
    /\ emitted = NoEmission
    /\ data_len = 0
    /\ data = CallerData

NextHeld == InitPictureParamsPlain \/ InitSliceParams

SpecHeld == InitHeld /\ [][NextHeld]_vars

\* The per-picture callbacks on a low-delay stream under every rate-control
\* setting.
InitQp ==
    /\ avctx \in QpAvctxs
    /\ priv = Configured(avctx)
    /\ aud = FALSE
    /\ sei = {SEI_MASTERING_DISPLAY, SEI_CONTENT_LIGHT_LEVEL}
    /\ pics = <<>>
    /\ cur = 0
    /\ phase = "idle"
    /\ side_data = NoSideData
    /\ sh = ZeroSliceHeader
    /\ vpic = ZeroPicture
    /\ vslice = ZeroSlice
    /\ bsf = NoPacket
    /\ current_access_unit = FragmentUninit
    /\ emitted = NoEmission
    /\ data_len = 0
    /\ data = CallerData

NextQp == ScheduleInOrder \/ InitPictureParamsPlain \/ InitSliceParams

SpecQp == InitQp /\ [][NextQp]_vars

\* ------------------------------------------------------ the av1_ts filter
\* libavcodec/bsf/av1_ts.c.  A packet is a sequence of bytes (0 .. 255).
START_CODE_SIZE == 3
MIN_PACKET_SIZE == 4
AV1_OBU_TEMPORAL_DELIMITER == 2

\* The start code 0x000001 written in front of each OBU.
StartCode == <<0, 0, 1>>
temporal_delimiter_obu == <<18, 0>>

\* write_escaped: what the loop writes from the byte at index i (from 1) on.
\* After an escape the loop goes on behind the third byte.
RECURSIVE WriteEscaped(_, _)
WriteEscaped(src, i) ==
    IF i > Len(src) THEN <<>>
    ELSE IF i + 2 <= Len(src) /\ src[i] = 0 /\ src[i + 1] = 0 /\ src[i + 2] <= 3
    THEN <<0, 0, 3, src[i + 2]>> \o WriteEscaped(src, i + 3)
    ELSE <<src[i]>> \o WriteEscaped(src, i + 1)

\* remove_escape: what the loop writes from the byte at index i on.
RECURSIVE RemoveEscape(_, _)
RemoveEscape(src, i) ==
    IF i > Len(src) THEN <<>>
    ELSE IF i + 2 <= Len(src) /\ src[i] = 0 /\ src[i + 1] = 0 /\ src[i + 2] = 3
    THEN <<0, 0>> \o RemoveEscape(src, i + 3)
    ELSE <<src[i]>> \o RemoveEscape(src, i + 1)

\* has_temporal_delimiter.
HasTemporalDelimiter(pkt) ==
    /\ Len(pkt) >= 2
    /\ (pkt[1] \div 8) % 16 = AV1_OBU_TEMPORAL_DELIMITER
    /\ ((pkt[1] \div 2) % 2 = 0 \/ pkt[2] = 0)

\* ff_av1_extract_obu on the bytes buf: raw_size of the first OBU, or -1 for
\* AVERROR_INVALIDDATA.  The header byte holds the forbidden bit, the type,
\* extension_flag and has_size_flag; the size field is a LEB128 number, here
\* of one byte; an OBU without size field takes the rest of the packet.
ExtractObu(buf) ==
    LET ext  == (buf[1] \div 4) % 2
        size == IF (buf[1] \div 2) % 2 = 0 THEN Len(buf)
                ELSE IF Len(buf) < 2 + ext \/ buf[2 + ext] >= 128 THEN -1
                ELSE 2 + ext + buf[2 + ext]
    IN IF buf[1] >= 128 \/ size > Len(buf) \/ size < 1 + ext THEN -1 ELSE size

\* The loop of av1_to_ts_filter over the OBUs left in buf: the return value
\* and the bytes written.
RECURSIVE ToTsObus(_)
ToTsObus(buf) ==
    IF buf = <<>> THEN [ret |-> "OK", data |-> <<>>]
    ELSE LET obu_size == ExtractObu(buf)
         IN IF obu_size < 0 THEN [ret |-> "AVERROR_INVALIDDATA", data |-> <<>>]
            ELSE LET rest == ToTsObus(SubSeq(buf, obu_size + 1, Len(buf)))
                 IN IF rest.ret # "OK" THEN rest
                    ELSE [ret  |-> "OK",
                          data |-> StartCode
                                   \o WriteEscaped(SubSeq(buf, 1, obu_size), 1)
                                   \o rest.data]

\* av1_to_ts_filter on the packet pkt.
Av1ToTs(pkt) ==
    LET obus == ToTsObus(pkt)
    IN IF obus.ret # "OK" THEN obus
       ELSE [ret  |-> "OK",
             data |-> (IF HasTemporalDelimiter(pkt) THEN <<>>
                       ELSE StartCode \o temporal_delimiter_obu) \o obus.data]

\* The scan of av1_from_ts_filter for the next start code in buf: obu_size
\* counts up from k.
RECURSIVE NextStartCode(_, _)
NextStartCode(buf, k) ==
    IF k + START_CODE_SIZE > Len(buf) THEN Len(buf)
    ELSE IF buf[k + 1] = 0 /\ buf[k + 2] = 0 /\ buf[k + 3] = 1 THEN k
    ELSE NextStartCode(buf, k + 1)

\* The loop of av1_from_ts_filter over the bytes left in buf.
RECURSIVE FromTsObus(_)
FromTsObus(buf) ==
    IF buf = <<>> THEN [ret |-> "OK", data |-> <<>>]
    ELSE IF \/ Len(buf) < MIN_PACKET_SIZE
            \/ buf[1] # 0 \/ buf[2] # 0 \/ buf[3] # 1
    THEN [ret |-> "AVERROR_INVALIDDATA", data |-> <<>>]
    ELSE LET body     == SubSeq(buf, START_CODE_SIZE + 1, Len(buf))
             obu_size == NextStartCode(body, 0)
             rest     == FromTsObus(SubSeq(body, obu_size + 1, Len(body)))
         IN IF rest.ret # "OK" THEN rest
            ELSE [ret  |-> "OK",
                  data |-> RemoveEscape(SubSeq(body, 1, obu_size), 1) \o rest.data]

\* av1_from_ts_filter on the packet pkt.
Av1FromTs(pkt) == FromTsObus(pkt)

\* Payload bytes: zero, the bytes an escape is made for, and another one.
PayloadBytes == {0, 1, 3, 170}

\* The payloads of up to n bytes.
RECURSIVE Payloads(_)
Payloads(n) ==
    IF n = 0 THEN {<<>>}
    ELSE Payloads(n - 1) \cup
         {Append(q, b) : q \in {r \in Payloads(n - 1) : Len(r) = n - 1},
                         b \in PayloadBytes}

\* A well-formed OBU (a sequence header OBU with a size field) of payload q.
Obu(q) == <<10, Len(q)>> \o q

\* Packets of well-formed OBUs: with or without a leading temporal delimiter,
\* then one OBU of up to MaxPayload bytes or two of up to MaxSecond bytes.
Packets ==
    {td \o Obu(q) : td \in {<<>>, temporal_delimiter_obu}, q \in Payloads(MaxPayload)}
    \cup
    {td \o Obu(q) \o Obu(r) : td \in {<<>>, temporal_delimiter_obu},
                              q \in Payloads(MaxSecond), r \in Payloads(MaxSecond)}

\* What no step of the filter changes: the encoder.
Encoder == <<avctx, aud, sei, pics, cur, phase, side_data, priv, sh, vpic,
             current_access_unit, emitted, data_len, data, vslice>>

\* A packet is sent to an instance of the filter in to_ts mode ...
SendPacket ==
    /\ bsf.stage = "none"
    /\ \E pkt \in Packets : bsf' = [NoPacket EXCEPT !.stage = "sent", !.in = pkt]
    /\ UNCHANGED Encoder

\* ... which returns the packet in Start Code Based Format or an error ...
Av1ToTsFilter ==
    /\ bsf.stage = "sent"
    /\ LET res == Av1ToTs(bsf.in)
       IN bsf' = [bsf EXCEPT !.stage = IF res.ret = "OK" THEN "to_ts" ELSE "failed",
                             !.ts = res.data, !.ret = res.ret]
    /\ UNCHANGED Encoder

\* ... and that packet is sent to an instance in from_ts mode.
Av1FromTsFilter ==
    /\ bsf.stage = "to_ts"
    /\ LET res == Av1FromTs(bsf.ts)
       IN bsf' = [bsf EXCEPT !.stage = IF res.ret = "OK" THEN "from_ts" ELSE "failed",
                             !.out = res.data, !.ret = res.ret]
    /\ UNCHANGED Encoder

NextTs == SendPacket \/ Av1ToTsFilter \/ Av1FromTsFilter

\* The filter next to an encoder with the default options, which takes no step.
SpecTs == InitParams /\ [][NextTs]_vars

\* ===================================================================
\* Properties
\* ===================================================================
HeaderEntries == {"sequence", "slice"}
Current == pics[cur]

\* C1, as stated: with aud enabled, whichever of write_sequence_header or
\* write_slice_header runs first for a picture inserts exactly one AUD as the
\* first NAL of its fragment, no later emission of the picture inserts another,
\* and with aud disabled no emission contains an AUD.
C1_FirstHeaderCarriesAud ==
    /\ (/\ aud
        /\ emitted.last.entry \in HeaderEntries
        /\ emitted.headers = 1
        /\ emitted.last.err = "OK")
       => /\ emitted.last.units[1].nal_unit_type = HEVC_NAL_AUD
          /\ AudUnits(emitted.last.units) = 1
    /\ emitted.auds <= 1
    /\ ~aud => emitted.auds = 0

\* C1, amended: with aud enabled, the first emission call of a picture that
\* gets a NAL into its fragment decides the AUD.  When that call is
\* write_sequence_header or write_slice_header it inserts exactly one AUD as
\* the first NAL of its fragment; every later emission of the picture (so also
\* the headers that follow a write_extra_header that came first) inserts no
\* AUD.  With aud disabled no emission contains an AUD.
C1_AudOnce ==
    /\ (/\ aud
        /\ emitted.last.entry \in HeaderEntries
        /\ emitted.last.units # <<>>
        /\ emitted.adds = 1)
       => /\ emitted.last.units[1].nal_unit_type = HEVC_NAL_AUD
          /\ AudUnits(emitted.last.units) = 1
    /\ (emitted.adds >= 2 /\ emitted.last.units # <<>>)
       => AudUnits(emitted.last.units) = 0
    /\ emitted.auds <= 1
    /\ ~aud => emitted.auds = 0

\* An IDR picture whose sequence header carried the AUD and whose slice header,
\* written after it, carries none.
C1_Witness ==
    /\ aud
    /\ emitted.headers = 2 /\ emitted.adds = 2 /\ emitted.auds = 1
    /\ emitted.last.entry = "slice" /\ emitted.last.err = "OK"
    /\ emitted.last.units[1].nal_unit_type # HEVC_NAL_AUD

\* C2: for every picture processed by init_picture_params the classifier
\* yields IDR -> IDR_W_RADL, slice type I, pic_type 0; I -> CRA_NUT, I, 0;
\* P -> TRAIL_R, P, 1; B -> TRAIL_N or RASL_N, B, 2; the AUD record carries
\* that pic_type, and the NAL type in the hardware picture parameters and in
\* the slice header built next is that code.
C2_ClassifierTable ==
    phase # "idle" =>
      LET t   == Current.type
          nal == priv.slice_nal_unit
      IN /\ t = PICTURE_TYPE_IDR =>
              nal = HEVC_NAL_IDR_W_RADL /\ priv.slice_type = HEVC_SLICE_I
              /\ priv.pic_type = 0
         /\ t = PICTURE_TYPE_I =>
              nal = HEVC_NAL_CRA_NUT /\ priv.slice_type = HEVC_SLICE_I
              /\ priv.pic_type = 0
         /\ t = PICTURE_TYPE_P =>
              nal = HEVC_NAL_TRAIL_R /\ priv.slice_type = HEVC_SLICE_P
              /\ priv.pic_type = 1
         /\ t = PICTURE_TYPE_B =>
              nal \in {HEVC_NAL_TRAIL_N, HEVC_NAL_RASL_N}
              /\ priv.slice_type = HEVC_SLICE_B /\ priv.pic_type = 2
         /\ aud => priv.raw_aud = [nal_unit_type |-> HEVC_NAL_AUD,
                                   pic_type |-> priv.pic_type]
         /\ vpic.nal_unit_type = nal
         /\ phase = "slice" =>
              sh.nal_unit_type = nal /\ sh.slice_type = priv.slice_type

\* The slice header of a P picture has been built, with aud enabled.
C2_Witness ==
    /\ phase = "slice" /\ aud
    /\ Current.type = PICTURE_TYPE_P
    /\ sh.nal_unit_type = HEVC_NAL_TRAIL_R /\ priv.raw_aud.pic_type = 1

\* C3, as stated: a B picture is RASL_N if and only if its second reference
\* is an I or an IDR picture, and TRAIL_N otherwise.
C3_RaslIffIntraRef ==
    (phase # "idle" /\ Current.type = PICTURE_TYPE_B) =>
      priv.slice_nal_unit =
        IF pics[Current.refs[2]].type \in {PICTURE_TYPE_I, PICTURE_TYPE_IDR}
        THEN HEVC_NAL_RASL_N ELSE HEVC_NAL_TRAIL_N

\* C3, amended: a B picture is RASL_N if and only if its second reference is
\* a non-IDR I picture; in every other case, an IDR second reference
\* included, it is TRAIL_N.
C3_RaslIffCraRef ==
    (phase # "idle" /\ Current.type = PICTURE_TYPE_B) =>
      /\ priv.slice_nal_unit = HEVC_NAL_RASL_N
            <=> pics[Current.refs[2]].type = PICTURE_TYPE_I
      /\ priv.slice_nal_unit # HEVC_NAL_RASL_N
            => priv.slice_nal_unit = HEVC_NAL_TRAIL_N

\* A B picture whose second reference is an IDR has been classified TRAIL_N.
C3_Witness ==
    /\ phase # "idle" /\ Current.type = PICTURE_TYPE_B
    /\ pics[Current.refs[2]].type = PICTURE_TYPE_IDR
    /\ priv.slice_nal_unit = HEVC_NAL_TRAIL_N

\* ------------------------------------------------ reference picture sets
\* st is one of the references of picture p.
InRefs(p, st) == \E i \in DOMAIN p.refs : p.refs[i] = st

\* Some live B picture, not before picture n in encode order, has the
\* reference list exactly <<st, n>>.
KeptBy(ps, n, st) ==
    \E rp \in 1 .. Len(ps) :
        /\ ps[rp].type = PICTURE_TYPE_B
        /\ ps[rp].encode_order >= ps[n].encode_order
        /\ ps[rp].refs = <<st, n>>

\* The number of entries rps holds for picture st.
EntriesFor(rps, st) ==
    Cardinality({i \in 1 .. Len(rps.s0) : rps.s0[i].st = st})
    + Cardinality({i \in 1 .. Len(rps.s1) : rps.s1[i].st = st})

\* rps holds the entries C4 gives picture n of the window ps.
RpsMembership(ps, n, rps) ==
    \A st \in 1 .. Len(ps) :
        /\ EntriesFor(rps, st) <= 1
        /\ EntriesFor(rps, st) = 1
             <=> /\ ps[st].encode_order < ps[n].encode_order
                 /\ InRefs(ps[n], st) \/ KeptBy(ps, n, st)
        /\ \A e \in {rps.s0[i] : i \in 1 .. Len(rps.s0)}
                  \cup {rps.s1[i] : i \in 1 .. Len(rps.s1)} :
              e.st = st => (e.used <=> InRefs(ps[n], st))

\* The window of the example: A (display 0, encode 0, IDR), C (display 2,
\* encode 1, B, refs A and B) and B (display 1, encode 2, P, refs A).
ExampleWindow ==
    << [display_order |-> 0, encode_order |-> 0, type |-> PICTURE_TYPE_IDR,
        refs |-> <<>>],
       [display_order |-> 2, encode_order |-> 1, type |-> PICTURE_TYPE_B,
        refs |-> <<1, 3>>],
       [display_order |-> 1, encode_order |-> 2, type |-> PICTURE_TYPE_P,
        refs |-> <<1>>] >>

ExampleRps ==
    [s0 |-> << [st |-> 1, used |-> TRUE, delta_poc_minus1 |-> 0] >>, s1 |-> <<>>]

\* C4: when init_slice_params builds the RPS of a non-IDR picture P, a live
\* picture ST with encode order below P's gets an entry iff ST is in P.refs
\* (entry marked used) or some live B picture with encode order >= P's has
\* the reference list [ST, P] (entry marked not used); pictures with encode
\* order >= P's get none and no ST gets two.  On the example window the RPS
\* of B is one negative entry (A, used, delta 0) and no positive entry.
C4_RpsMembership ==
    [][ /\ BuildRps(ExampleWindow, 3) = ExampleRps
        /\ (phase = "pic" /\ phase' = "slice"
              /\ Current.type # PICTURE_TYPE_IDR)
            => RpsMembership(pics, cur, sh'.short_term_ref_pic_set) ]_vars

\* The RPS of a non-IDR I picture holds an unused reference for a live B
\* picture that follows it.
C4_Witness ==
    /\ phase = "slice" /\ Current.type = PICTURE_TYPE_I
    /\ \E i \in 1 .. Len(sh.short_term_ref_pic_set.s0) :
         LET e == sh.short_term_ref_pic_set.s0[i]
         IN ~e.used /\ KeptBy(pics, cur, e.st)

\* C5: every picture ST retained in the RPS of P is in the negative set with
\* delta = P.display - ST.display - 1 if ST.display < P.display, else in the
\* positive set with delta = ST.display - P.display - 1, with used equal to
\* whether ST is in P.refs; every stored delta is >= 0.
C5_Bucketing ==
    (phase = "slice" /\ Current.type # PICTURE_TYPE_IDR) =>
      LET rps == sh.short_term_ref_pic_set
      IN /\ \A i \in 1 .. Len(rps.s0) :
              LET e == rps.s0[i]
              IN /\ pics[e.st].display_order < Current.display_order
                 /\ e.delta_poc_minus1 =
                      Current.display_order - pics[e.st].display_order - 1
                 /\ e.used <=> InRefs(Current, e.st)
                 /\ e.delta_poc_minus1 >= 0
         /\ \A i \in 1 .. Len(rps.s1) :
              LET e == rps.s1[i]
              IN /\ ~(pics[e.st].display_order < Current.display_order)
                 /\ e.delta_poc_minus1 =
                      pics[e.st].display_order - Current.display_order - 1
                 /\ e.used <=> InRefs(Current, e.st)
                 /\ e.delta_poc_minus1 >= 0

\* A B picture with one entry in each set: a used past reference and a used
\* future reference.
C5_Witness ==
    /\ phase = "slice" /\ Current.type = PICTURE_TYPE_B
    /\ Len(sh.short_term_ref_pic_set.s0) = 1
    /\ Len(sh.short_term_ref_pic_set.s1) = 1
    /\ sh.short_term_ref_pic_set.s1[1].delta_poc_minus1 > 0

\* C6: in every RPS the builder produces, the negative-set entries are in
\* increasing distance from the current picture (closest first) and the
\* positive-set entries in increasing distance going forward.
C6_IncreasingDistance ==
    (phase = "slice" /\ Current.type # PICTURE_TYPE_IDR) =>
      LET rps == sh.short_term_ref_pic_set
      IN /\ \A i, j \in 1 .. Len(rps.s0) :
              i < j => rps.s0[i].delta_poc_minus1 < rps.s0[j].delta_poc_minus1
         /\ \A i, j \in 1 .. Len(rps.s1) :
              i < j => rps.s1[i].delta_poc_minus1 < rps.s1[j].delta_poc_minus1

\* The sum of (delta_poc_minus1 + 1) over the first k entries of a set.
RECURSIVE DeltaSum(_, _)
DeltaSum(set, k) ==
    IF k = 0 THEN 0 ELSE DeltaSum(set, k - 1) + set[k].delta_poc_minus1 + 1

\* C7: in every RPS the builder produces each stored delta is relative to
\* the previous entry of the same set, so the cumulative sums of
\* (delta_minus1 + 1) away from the current picture's display order give the
\* display orders of the pictures bucketed into the set.
C7_CumulativeDecode ==
    (phase = "slice" /\ Current.type # PICTURE_TYPE_IDR) =>
      LET rps == sh.short_term_ref_pic_set
      IN /\ \A k \in 1 .. Len(rps.s0) :
              Current.display_order - DeltaSum(rps.s0, k)
                = pics[rps.s0[k].st].display_order
         /\ \A k \in 1 .. Len(rps.s1) :
              Current.display_order + DeltaSum(rps.s1, k)
                = pics[rps.s1[k].st].display_order

\* ------------------------------------------------------ picture order count
\* C8: last_idr_frame is the display order of the most recently processed
\* IDR picture (I, P and B pictures leave it alone), and the picture order
\* count of the current picture and of each of its references in the
\* hardware picture parameters is its display order minus that origin,
\* 0 for the IDR itself.
C8_LastIdrOrigin ==
    cur >= 1 =>
      \E k \in 1 .. cur :
        /\ pics[k].type = PICTURE_TYPE_IDR
        /\ \A j \in (k + 1) .. cur : pics[j].type # PICTURE_TYPE_IDR
        /\ priv.last_idr_frame = pics[k].display_order
        /\ vpic.decoded_curr_pic.pic_order_cnt
             = Current.display_order - pics[k].display_order
        /\ \A i \in 1 .. Len(Current.refs) :
             vpic.reference_frames[i].pic_order_cnt
               = pics[Current.refs[i]].display_order - pics[k].display_order
        /\ Current.type = PICTURE_TYPE_IDR
             => vpic.decoded_curr_pic.pic_order_cnt = 0

\* A non-IDR I picture processed after an IDR whose display order is not 0:
\* the origin is still that IDR.
C8_Witness ==
    /\ cur >= 2 /\ Current.type = PICTURE_TYPE_I
    /\ priv.last_idr_frame > 0
    /\ priv.last_idr_frame # Current.display_order
    /\ vpic.decoded_curr_pic.pic_order_cnt # 0

\* C9: slice_pic_order_cnt_lsb is (display_order - last IDR display order)
\* mod 2^12, 0 for the IDR itself, also 4096 or more positions after the IDR.
C9_PocLsb ==
    phase = "slice" =>
      LET diff == Current.display_order - priv.last_idr_frame
          lsb  == sh.slice_pic_order_cnt_lsb
      IN /\ lsb \in 0 .. (PocWrap - 1)
         /\ \E q \in -2 .. 2 : diff = q * PocWrap + lsb
         /\ Current.type = PICTURE_TYPE_IDR => lsb = 0

\* A picture more than 4096 display positions after the last IDR: the lsb wrapped.
C9_Witness ==
    /\ phase = "slice"
    /\ Current.display_order - priv.last_idr_frame > PocWrap
    /\ sh.slice_pic_order_cnt_lsb
         = Current.display_order - priv.last_idr_frame - PocWrap

\* ------------------------------------------------------------ SEI payloads
\* C10: for each picture and each SEI toggle, the payload is composed iff
\* the toggle is enabled, the picture is I or IDR and the side data is
\* attached to that picture (mastering display: with primaries and
\* luminance); P and B pictures get none, whatever earlier pictures carried.
C10_SeiComposed ==
    phase # "idle" =>
      LET intra == Current.type \in {PICTURE_TYPE_I, PICTURE_TYPE_IDR}
      IN /\ SEI_MASTERING_DISPLAY \in priv.sei_needed
              <=> /\ SEI_MASTERING_DISPLAY \in sei
                  /\ intra
                  /\ side_data.mdm.present
                  /\ side_data.mdm.has_primaries
                  /\ side_data.mdm.has_luminance
         /\ SEI_CONTENT_LIGHT_LEVEL \in priv.sei_needed
              <=> /\ SEI_CONTENT_LIGHT_LEVEL \in sei
                  /\ intra
                  /\ side_data.clm
         /\ ~intra => priv.sei_needed = {}

\* A P picture that carries complete side data, after a picture for which
\* both payloads were composed, gets no payload.
C10_Witness ==
    /\ cur >= 2 /\ phase = "slice"
    /\ Current.type = PICTURE_TYPE_P
    /\ side_data = HdrSideData
    /\ sei = {SEI_MASTERING_DISPLAY, SEI_CONTENT_LIGHT_LEVEL}
    /\ priv.sei_needed = {}

\* ------------------------------------------------------- the extra header
\* The number of write_extra_header calls made for the current picture.
ExtraCalls == emitted.calls - emitted.headers

\* C11: calling write_extra_header for a picture until it reports not-needed:
\* the first call reports not-needed iff no SEI payload was composed for the
\* picture; otherwise the entry point succeeds exactly once, with one SEI NAL
\* that holds every composed payload, before it reports not-needed.
C11_ExtraHeaderOnce ==
    (cur >= 1 /\ emitted.last.entry = "extra") =>
      LET composed == SeiNeeded(Current, side_data)
          last     == emitted.last
      IN /\ ExtraCalls = 1 => (last.err = "EOF" <=> composed = {})
         /\ last.err = "OK" =>
              /\ emitted.sent = 1
              /\ last.units # <<>>
              /\ last.units[Len(last.units)]
                   = Unit(HEVC_NAL_SEI_PREFIX, "raw_sei", SeiPayloads(composed))
              /\ \A i \in 1 .. (Len(last.units) - 1) :
                   last.units[i].content # "raw_sei"
         /\ (last.err = "EOF" /\ composed # {}) => emitted.sent = 1

\* C12: the unit an emission entry point inserts ahead of its own units is
\* the AUD record prepared for the picture: NAL unit type AUD (35), carrying
\* the classifier's pic_type; also when the entry point is write_extra_header.
C12_AudRecordInserted ==
    (cur >= 1 /\ emitted.last.units # <<>>
       /\ emitted.last.units[1].content \notin {"raw_vps", "raw_slice", "raw_sei"})
      => emitted.last.units[1]
           = Unit(HEVC_NAL_AUD, "raw_aud", <<PicType(Current)>>)

\* C13: when an emission entry point failed with ENOSPC and the same entry
\* point is called again for the same picture and gets through, it hands over
\* the NAL list of the failed call (the list a first call would have
\* produced): a pending AUD or SEI is not lost.
C13_RetryKeepsList ==
    [][ (/\ emitted.last.err = "ENOSPC"
         /\ emitted'.calls = emitted.calls + 1
         /\ emitted'.last.entry = emitted.last.entry
         /\ emitted'.last.err \in {"OK", "EOF"})
        => emitted'.last.units = emitted.last.units ]_vars

\* ------------------------------------------------------ write_access_unit
\* A step in which write_access_unit ran and the serializer did not fail.
Serialized ==
    /\ emitted'.calls = emitted.calls + 1
    /\ emitted'.last.entry = "access_unit"
    /\ emitted'.last.err # "EINVAL"

\* C14: when the caller's capacity is smaller than the serialized size of
\* the access unit, write_access_unit returns ENOSPC and leaves the caller's
\* buffer and the caller's length variable as they were.
C14_NoPartialWrite ==
    [][ (Serialized /\ data_len < FragmentBits(current_access_unit'))
        => /\ emitted'.last.err = "ENOSPC"
           /\ data_len' = data_len
           /\ data' = data ]_vars

\* A fragment of the full buffer size was refused for a capacity one bit short.
C14_Witness ==
    /\ emitted.last.entry = "access_unit" /\ emitted.last.err = "ENOSPC"
    /\ current_access_unit.data_size = MaxBytes
    /\ data_len = FragmentBits(current_access_unit) - 1
    /\ data = CallerData

\* C15: when the caller's buffer is too small, what write_access_unit gives
\* back to the caller includes the required size of the serialized access
\* unit: next to the error code its only output is the caller's length
\* variable.
C15_RequiredSizeReported ==
    [][ (Serialized /\ emitted'.last.err = "ENOSPC")
        => data_len' = FragmentBits(current_access_unit') ]_vars

\* C16: write_access_unit succeeds exactly when the caller's capacity in
\* bits is at least 8 * data_size - data_bit_padding of the serialized
\* fragment; on success it reports that bit length and copies exactly
\* data_size bytes into the caller's buffer.
C16_BitLength ==
    [][ Serialized
        => LET au == current_access_unit'
           IN /\ emitted'.last.err = "OK" <=> data_len >= FragmentBits(au)
              /\ emitted'.last.err = "OK"
                   => /\ data_len' = FragmentBits(au)
                      /\ \A i \in DOMAIN data :
                           data'[i] = IF i <= au.data_size THEN "packed"
                                      ELSE data[i] ]_vars

\* A fragment with a padded last byte was copied into a buffer of more bytes
\* and of more capacity than the fragment has bits.
C16_Witness ==
    /\ emitted.last.entry = "access_unit" /\ emitted.last.err = "OK"
    /\ current_access_unit.data_bit_padding > 0
    /\ current_access_unit.data_size < MaxBytes
    /\ data_len = FragmentBits(current_access_unit)
    /\ data[1] = "packed" /\ data[MaxBytes] = "caller"

\* ----------------------------------------------------------- parameter sets
\* C17: once init_sequence_params has built the VPS, SPS and PPS, no
\* per-picture operation changes any field of them, and every sequence header
\* emitted carries the parameter sets as they were built.
C17_ParameterSetsFrozen ==
    [][ /\ priv'.raw_vps = priv.raw_vps
        /\ priv'.raw_sps = priv.raw_sps
        /\ priv'.raw_pps = priv.raw_pps
        /\ emitted'.last.entry = "sequence" =>
             \A i \in 1 .. Len(emitted'.last.units) :
               LET u == emitted'.last.units[i]
               IN /\ u.content = "raw_vps" => u.detail = Configured(avctx).raw_vps
                  /\ u.content = "raw_sps" => u.detail = Configured(avctx).raw_sps
                  /\ u.content = "raw_pps" => u.detail = Configured(avctx).raw_pps
      ]_vars

\* The sequence header of a second IDR picture, after a first picture with
\* all its headers, carries the parameter sets of the configuration.
C17_Witness ==
    /\ cur >= 2 /\ Current.type = PICTURE_TYPE_IDR
    /\ emitted.last.entry = "sequence" /\ emitted.last.err = "OK"
    /\ \E i \in 1 .. Len(emitted.last.units) :
         /\ emitted.last.units[i].content = "raw_sps"
         /\ emitted.last.units[i].detail = priv.raw_sps
    /\ priv.raw_sps.pic_height_in_luma_samples = 1088

\* ------------------------------------------------------ reference counts
\* The reference count the picture type calls for.
RefCount(t) ==
    IF t = PICTURE_TYPE_P THEN 1 ELSE IF t = PICTURE_TYPE_B THEN 2 ELSE 0

\* C18: whenever init_picture_params and init_slice_params both complete for
\* a picture, its reference count is 0 for IDR and I, 1 for P and 2 for B; a
\* picture with any other count is stopped by an assertion and its
\* parameters never come out of the two callbacks.
C18_ReferenceCardinality ==
    /\ phase = "slice" => Len(Current.refs) = RefCount(Current.type)
    /\ (cur >= 1 /\ phase # "idle"
          /\ Len(Current.refs) # RefCount(Current.type))
         => phase \in {"pic", "abort"}
    /\ (phase = "pic" /\ Len(Current.refs) # RefCount(Current.type))
         => ~SliceParamsAsserts(Current)

\* A P picture with two references got through init_picture_params and was
\* stopped in init_slice_params.
C18_Witness ==
    /\ phase = "abort"
    /\ Current.type = PICTURE_TYPE_P /\ Len(Current.refs) = 2
    /\ PictureParamsAsserts(Current, priv.last_idr_frame)

\* ------------------------------------------------------ sequence parameters
\* The subsampling for which init_sequence_params has a chroma format.
SupportedDesc(desc) ==
    \/ desc.nb_components = 1
    \/ <<desc.log2_chroma_w, desc.log2_chroma_h>> \in {<<1, 1>>, <<1, 0>>, <<0, 0>>}

\* SubWidthC and SubHeightC, the units of the conformance window offsets, for
\* a chroma_format_idc.
SubWidthC(cf)  == IF cf \in {1, 2} THEN 2 ELSE 1
SubHeightC(cf) == IF cf = 1 THEN 2 ELSE 1

\* C19: the SPS conformance window is present iff the aligned surface size
\* differs from the requested size; when present, left and top offsets are 0
\* and the right and bottom offsets are the surface-minus-requested
\* difference scaled by the chroma shift of the configured chroma format
\* (half the difference for 4:2:0); when absent all four offsets are 0.
C19_ConformanceWindow ==
    (phase = "idle" /\ SupportedDesc(avctx.desc)) =>
      LET sps == priv.raw_sps
          dw  == priv.common.surface_width - avctx.width
          dh  == priv.common.surface_height - avctx.height
      IN /\ sps.conformance_window_flag <=> (dw # 0 \/ dh # 0)
         /\ sps.conf_win_left_offset = 0 /\ sps.conf_win_top_offset = 0
         /\ sps.conf_win_right_offset  = dw \div SubWidthC(sps.chroma_format_idc)
         /\ sps.conf_win_bottom_offset = dh \div SubHeightC(sps.chroma_format_idc)

\* C20: init_sequence_params sets chroma_format_idc to 0 for a
\* single-component format and to 1, 2, 3 for the subsampling (1,1), (1,0),
\* (0,0); for any other subsampling it returns an error and produces no
\* parameter sets.
C20_ChromaFormat ==
    phase = "idle" =>
      LET desc == avctx.desc
          cf   == priv.raw_sps.chroma_format_idc
      IN /\ SupportedDesc(desc)
         /\ desc.nb_components = 1 => cf = 0
         /\ desc.nb_components # 1 =>
              cf = IF desc.log2_chroma_h = 1 THEN 1
                   ELSE IF desc.log2_chroma_w = 1 THEN 2 ELSE 3
\* The number of places of buf where the bytes 00 00 01 stand.
StartCodes(buf) ==
    Cardinality({i \in 1 .. Len(buf) - 2 :
                    buf[i] = 0 /\ buf[i + 1] = 0 /\ buf[i + 2] = 1})

\* The number of OBUs of a packet of well-formed OBUs.
RECURSIVE ObuCount(_)
ObuCount(buf) ==
    IF buf = <<>> THEN 0
    ELSE 1 + ObuCount(SubSeq(buf, ExtractObu(buf) + 1, Len(buf)))

\* C21: a packet of well-formed OBUs that begins with a temporal delimiter
\* comes back byte for byte from to_ts followed by from_ts, whatever its
\* payload bytes are.
C21_RoundTrip ==
    (HasTemporalDelimiter(bsf.in) /\ bsf.stage \in {"from_ts", "failed"})
        => (bsf.ret = "OK" /\ bsf.out = bsf.in)

\* C22: in a packet returned in to_ts mode the bytes 00 00 01 stand only
\* where the filter wrote a start code: once per OBU of the packet sent, and
\* once more for an inserted temporal delimiter.
C22_StartCodesOnly ==
    bsf.stage = "to_ts"
        => StartCodes(bsf.ts) =
              ObuCount(bsf.in) + (IF HasTemporalDelimiter(bsf.in) THEN 0 ELSE 1)

\* C23, as stated: whatever the window, the RPS init_slice_params leaves in
\* the slice header has at most HEVC_MAX_REFS entries in its negative set and
\* in its positive set (a window that needs more does not get that far).
C23_RpsCapacity ==
    phase = "slice"
        => /\ Len(sh.short_term_ref_pic_set.s0) <= HEVC_MAX_REFS
           /\ Len(sh.short_term_ref_pic_set.s1) <= HEVC_MAX_REFS

\* C24, as stated: after init_slice_params the RPS of the slice header is
\* empty for an IDR picture, and for any other picture each entry is the one
\* the builder makes for the current picture and an earlier picture of the
\* window.
C24_RpsPictureLocal ==
    phase = "slice"
        => LET rps == sh.short_term_ref_pic_set
           IN IF Current.type = PICTURE_TYPE_IDR
              THEN Len(rps.s0) = 0 /\ Len(rps.s1) = 0
              ELSE /\ \A i \in 1 .. Len(rps.s0) :
                        LET e == rps.s0[i]
                        IN /\ pics[e.st].encode_order < Current.encode_order
                           /\ e = NegativeEntry(Current, pics[e.st], e.st,
                                                Used(Current, e.st))
                   /\ \A i \in 1 .. Len(rps.s1) :
                        LET e == rps.s1[i]
                        IN /\ pics[e.st].encode_order < Current.encode_order
                           /\ e = PositiveEntry(Current, pics[e.st], e.st,
                                                Used(Current, e.st))

\* C25: slice_qp_delta is the fixed QP of the picture's type less the PPS
\* initial QP, which is the fixed intra QP: 0 for IDR and I pictures, and the
\* PPS initial QP plus the delta gives the fixed QP of the type; the hardware
\* slice parameters carry the same delta.
C25_SliceQpDelta ==
    phase = "slice"
        => LET fixed == IF Current.type = PICTURE_TYPE_B THEN priv.fixed_qp_b
                        ELSE IF Current.type = PICTURE_TYPE_P THEN priv.fixed_qp_p
                        ELSE priv.fixed_qp_idr
               init  == priv.raw_pps.init_qp_minus26 + 26
           IN /\ init = priv.fixed_qp_idr
              /\ sh.slice_qp_delta = fixed - priv.fixed_qp_idr
              /\ init + sh.slice_qp_delta = fixed
              /\ Current.type \in {PICTURE_TYPE_IDR, PICTURE_TYPE_I}
                    => sh.slice_qp_delta = 0
              /\ vslice.slice_qp_delta = sh.slice_qp_delta

\* A B picture whose QP differs from those of the P and of the intra pictures
\* has got its slice parameters.
C25_Witness ==
    /\ phase = "slice"
    /\ Current.type = PICTURE_TYPE_B
    /\ priv.fixed_qp_b # priv.fixed_qp_p
    /\ priv.fixed_qp_p # priv.fixed_qp_idr
    /\ sh.slice_qp_delta # 0

\* C26: after init_slice_params every entry of ref_pic_list0 and of
\* ref_pic_list1 is the invalid one, but list0[0], which is reference_frames[0]
\* of a picture with a reference, and list1[0], which is reference_frames[1]
\* of a picture with two; those of an I or IDR slice are all invalid, and so
\* is every reference_frames entry from the number of references on.
C26_RefPicLists ==
    phase = "slice"
        => LET n == Len(Current.refs)
           IN /\ DOMAIN vslice.ref_pic_list0 = 1 .. RefPicListSize
              /\ DOMAIN vslice.ref_pic_list1 = 1 .. RefPicListSize
              /\ \A i \in 1 .. RefPicListSize :
                    /\ vslice.ref_pic_list0[i] =
                          IF i = 1 /\ n >= 1 THEN vpic.reference_frames[1]
                          ELSE InvalidPicture
                    /\ vslice.ref_pic_list1[i] =
                          IF i = 1 /\ n >= 2 THEN vpic.reference_frames[2]
                          ELSE InvalidPicture
                    /\ Current.type \in {PICTURE_TYPE_IDR, PICTURE_TYPE_I}
                          => /\ vslice.ref_pic_list0[i] = InvalidPicture
                             /\ vslice.ref_pic_list1[i] = InvalidPicture
              /\ \A i \in (n + 1) .. NumReferenceFrames :
                    vpic.reference_frames[i] = InvalidPicture

\* A B picture with its two references, and so with a valid entry at the
\* head of each list, has got its slice parameters.
C26_Witness ==
    /\ phase = "slice"
    /\ Current.type = PICTURE_TYPE_B
    /\ Len(Current.refs) = 2
    /\ vslice.ref_pic_list0[1] # InvalidPicture
    /\ vslice.ref_pic_list1[1] # InvalidPicture
    /\ vslice.ref_pic_list1[1] # vslice.ref_pic_list0[1]

\* x is n / d (d > 0) rounded to an integer and then brought into lo .. hi.
Quantized(x, n, d, lo, hi) ==
    \/ x = lo /\ 2 * (n - lo * d) <= d
    \/ x = hi /\ 2 * (hi * d - n) <= d
    \/ /\ lo <= x /\ x <= hi
       /\ 2 * (x * d - n) <= d /\ 2 * (n - x * d) <= d

\* C27: when the mastering display payload is composed, every chroma
\* coordinate and the white point are round(value * 50000) clamped into
\* [0, 50000], also for values below 0 or above 1; the maximum luminance is
\* round(value * 10000) and the minimum luminance is the same quantization
\* clamped so as not to exceed the stored maximum.
C27_MasteringQuantization ==
    (phase = "pic" /\ SEI_MASTERING_DISPLAY \in priv.sei_needed) =>
        LET mdm  == side_data.mdm
            mdcv == priv.sei_mastering_display
            max  == mdcv.max_display_mastering_luminance
        IN /\ \A i \in 1 .. 3 :
                LET q == mdm.display_primaries[MasteringMapping[i]]
                IN /\ Quantized(mdcv.display_primaries_x[i],
                                50000 * q[1][1], q[1][2], 0, 50000)
                   /\ Quantized(mdcv.display_primaries_y[i],
                                50000 * q[2][1], q[2][2], 0, 50000)
           /\ Quantized(mdcv.white_point_x, 50000 * mdm.white_point[1][1],
                        mdm.white_point[1][2], 0, 50000)
           /\ Quantized(mdcv.white_point_y, 50000 * mdm.white_point[2][1],
                        mdm.white_point[2][2], 0, 50000)
           /\ Quantized(max, 10000 * mdm.max_luminance[1],
                        mdm.max_luminance[2], max, max)
           /\ \/ /\ mdcv.min_display_mastering_luminance < max
                 /\ Quantized(mdcv.min_display_mastering_luminance,
                              10000 * mdm.min_luminance[1],
                              mdm.min_luminance[2],
                              mdcv.min_display_mastering_luminance,
                              mdcv.min_display_mastering_luminance)
              \/ /\ mdcv.min_display_mastering_luminance = max
                 /\ 2 * (max * mdm.min_luminance[2]
                          - 10000 * mdm.min_luminance[1]) <= mdm.min_luminance[2]

\* The configuration specifies one of primaries, transfer characteristic and
\* matrix coefficients; it specifies one of these or the colour range.
ColourDescribed ==
    \/ avctx.color_primaries # AVCOL_PRI_UNSPECIFIED
    \/ avctx.color_trc # AVCOL_TRC_UNSPECIFIED
    \/ avctx.colorspace # AVCOL_SPC_UNSPECIFIED
ColourSpecified == avctx.color_range # AVCOL_RANGE_UNSPECIFIED \/ ColourDescribed

\* C28 as stated: once init_sequence_params has run, the colour description
\* of the VUI is marked present exactly if one of colour range, primaries,
\* transfer characteristic and matrix coefficients is specified; when none
\* is, no presence flag is set, video_format is 5 and the full-range flag is
\* false.
C28_ColourDescriptionOnAny ==
    phase = "idle" =>
        LET vui == priv.raw_sps.vui
        IN /\ vui.colour_description_present_flag <=> ColourSpecified
           /\ ~ColourSpecified =>
                 /\ ~vui.video_signal_type_present_flag
                 /\ ~vui.colour_description_present_flag
                 /\ vui.video_format = 5
                 /\ ~vui.video_full_range_flag

\* C28 amended: once init_sequence_params has run, the video signal type is
\* marked present exactly if one of colour range, primaries, transfer
\* characteristic and matrix coefficients is specified, and the colour
\* description exactly if one of primaries, transfer characteristic and
\* matrix coefficients is; when none of the four is specified, no presence
\* flag is set, video_format is 5 and the full-range flag is false.
C28_ColourDescription ==
    phase = "idle" =>
        LET vui == priv.raw_sps.vui
        IN /\ vui.video_signal_type_present_flag <=> ColourSpecified
           /\ vui.colour_description_present_flag <=> ColourDescribed
           /\ ~ColourSpecified =>
                 /\ ~vui.video_signal_type_present_flag
                 /\ ~vui.colour_description_present_flag
                 /\ vui.video_format = 5
                 /\ ~vui.video_full_range_flag

\* Only the colour range is specified: the video signal type is marked
\* present and the colour description is not.
C28_Witness ==
    /\ phase = "idle"
    /\ avctx.color_range = AVCOL_RANGE_JPEG
    /\ ~ColourDescribed
    /\ priv.raw_sps.vui.video_signal_type_present_flag
    /\ priv.raw_sps.vui.video_full_range_flag
    /\ ~priv.raw_sps.vui.colour_description_present_flag

\* The NAL unit types of the units of list, in order.
UnitTypes(list) == [i \in 1 .. Len(list) |-> list[i].nal_unit_type]

\* C29: the NAL list an entry point hands to the serializer is, in order,
\* the AUD (35) if one is needed, then VPS (32), SPS (33), PPS (34) for
\* write_sequence_header, the one slice NAL of the classifier's type for
\* write_slice_header, and one SEI-prefix NAL (39) for write_extra_header,
\* whose payloads are mastering display (137) before content light level
\* (144), as many as were composed.
C29_NalListOrder ==
    [][ (/\ emitted'.calls = emitted.calls + 1
         /\ emitted'.last.err \in {"OK", "ENOSPC", "EINVAL"})
        => LET list  == emitted'.last.units
               entry == emitted'.last.entry
               au    == IF priv.aud_needed THEN <<HEVC_NAL_AUD>> ELSE <<>>
           IN CASE entry = "sequence" ->
                     UnitTypes(list) = au \o <<HEVC_NAL_VPS, HEVC_NAL_SPS, HEVC_NAL_PPS>>
                [] entry = "slice" ->
                     UnitTypes(list) = au \o <<SliceNalUnit(pics[cur])>>
                [] entry = "extra" ->
                     /\ UnitTypes(list) = au \o <<HEVC_NAL_SEI_PREFIX>>
                     /\ list[Len(list)].detail =
                          (IF SEI_MASTERING_DISPLAY \in priv.sei_needed
                           THEN <<137>> ELSE <<>>) \o
                          (IF SEI_CONTENT_LIGHT_LEVEL \in priv.sei_needed
                           THEN <<144>> ELSE <<>>)
                [] OTHER -> TRUE ]_vars

\* C30: after an emission entry point has returned, with success, with a
\* failure of add_nal or of the serializer, with ENOSPC or with the
\* not-needed signal, current_access_unit holds no units, and the list of a
\* call holds no unit of a call before it.
C30_FragmentEmptied ==
    emitted.calls >= 1 =>
        /\ current_access_unit.units = <<>>
        /\ Len(emitted.last.units) <= 4
        /\ \A i, j \in 1 .. Len(emitted.last.units) :
              i # j => emitted.last.units[i].content # emitted.last.units[j].content

\* A second emission call of a picture that failed with ENOSPC with four
\* units in its fragment and left the fragment without units.
C30_Witness ==
    /\ current_access_unit.units = <<>>
    /\ emitted.calls >= 2
    /\ emitted.last.err = "ENOSPC"
    /\ Len(emitted.last.units) >= 3

====
